---- MODULE Spec2Model ----
(***************************************************************************)
(* A model of ifc_datareader: the wrappers built over raw IFC records      *)
(* (IfcBaseEntity and its subclasses), their lazily loaded accessors, and  *)
(* the IfcDataReader queries.                                              *)
(*                                                                         *)
(* Python values are modelled as follows.                                  *)
(*   - an optional value is a sequence of length 0 (None) or 1 (the value);*)
(*   - a str is a sequence of one-character strings;                       *)
(*   - an object (a wrapper instance) is its index in the heap, so that    *)
(*     two objects are the same object iff their indexes are equal;        *)
(*   - a call returns an outcome [m, exc, val]: the heap after the call,   *)
(*     the exception it raised ("" when it returned) and the value.        *)
(***************************************************************************)
EXTENDS Integers, Sequences, FiniteSets, TLC

VARIABLES
    file,      \* the raw records and relations the provider parsed (immutable)
    heap,      \* the wrapper instances created so far, by identity
    loads,     \* per wrapper and lazy field, how many times its loader ran
    first,     \* per wrapper and lazy field, the result of its first access
    reader,    \* the IfcDataReader instance, when one was constructed
    result     \* the last call: operation, arguments, exception, value

vars == <<file, heap, loads, first, reader, result>>

----------------------------------------------------------------------------
(* Optional values and small helpers.                                      *)

None == <<>>

Some(x) == <<x>>

IsNone(o) == o = <<>>

Val(o) == o[1]

\* F applied to the value of v: the rest of a computation that reads v.
Let(v, F(_)) == CHOOSE y \in {F(u) : u \in {v}} : TRUE

\* f(x) for every x of the sequence s, in order.
Map(s, f(_)) == [i \in 1..Len(s) |-> f(s[i])]

RECURSIVE Flatten(_)
\* The concatenation of a sequence of sequences (tuple += tuple).
Flatten(ss) ==
    IF ss = <<>> THEN <<>> ELSE Head(ss) \o Flatten(Tail(ss))

\* The elements of s that satisfy Test, in order.
Filter(s, Test(_)) == SelectSeq(s, Test)

Range(s) == {s[i] : i \in 1..Len(s)}

----------------------------------------------------------------------------
(* The IFC type hierarchy, as the raw records' is_a() honours it.          *)

\* The immediate supertype of an IFC type ("" for a root of the hierarchy).
Supertype(t) ==
    CASE t = "IfcObjectDefinition" -> "IfcRoot"
      [] t = "IfcObject" -> "IfcObjectDefinition"
      [] t = "IfcProject" -> "IfcObject"
      [] t = "IfcProduct" -> "IfcObject"
      [] t = "IfcSpatialStructureElement" -> "IfcProduct"
      [] t = "IfcSite" -> "IfcSpatialStructureElement"
      [] t = "IfcBuilding" -> "IfcSpatialStructureElement"
      [] t = "IfcElement" -> "IfcProduct"
      [] t = "IfcBuildingElement" -> "IfcElement"
      [] t = "IfcWall" -> "IfcBuildingElement"
      [] t = "IfcWallStandardCase" -> "IfcWall"
      [] t = "IfcWindow" -> "IfcBuildingElement"
      [] t = "IfcFeatureElement" -> "IfcElement"
      [] t = "IfcFeatureElementSubtraction" -> "IfcFeatureElement"
      [] t = "IfcOpeningElement" -> "IfcFeatureElementSubtraction"
      [] t = "IfcGroup" -> "IfcObject"
      [] t = "IfcZone" -> "IfcGroup"
      [] t = "IfcTypeObject" -> "IfcObjectDefinition"
      [] t = "IfcTypeProduct" -> "IfcTypeObject"
      [] t = "IfcWallType" -> "IfcTypeProduct"
      [] t = "IfcPropertyDefinition" -> "IfcRoot"
      [] t = "IfcPropertySetDefinition" -> "IfcPropertyDefinition"
      [] t = "IfcPropertySet" -> "IfcPropertySetDefinition"
      [] t = "IfcElementQuantity" -> "IfcPropertySetDefinition"
      [] t = "IfcDoorLiningProperties" -> "IfcPropertySetDefinition"
      [] t = "IfcSimpleProperty" -> "IfcProperty"
      [] t = "IfcPropertySingleValue" -> "IfcSimpleProperty"
      [] t = "IfcComplexProperty" -> "IfcProperty"
      [] t = "IfcPhysicalSimpleQuantity" -> "IfcPhysicalQuantity"
      [] t = "IfcQuantityLength" -> "IfcPhysicalSimpleQuantity"
      [] t = "IfcQuantityArea" -> "IfcPhysicalSimpleQuantity"
      [] t = "IfcPhysicalComplexQuantity" -> "IfcPhysicalQuantity"
      [] t = "IfcRelDefines" -> "IfcRelationship"
      [] t = "IfcRelDefinesByType" -> "IfcRelDefines"
      [] t = "IfcRelDefinesByProperties" -> "IfcRelDefines"
      [] t = "IfcRelDecomposes" -> "IfcRelationship"
      [] t = "IfcRelAggregates" -> "IfcRelDecomposes"
      [] t = "IfcRelConnects" -> "IfcRelationship"
      [] t = "IfcRelContainedInSpatialStructure" -> "IfcRelConnects"
      [] t = "IfcRelVoidsElement" -> "IfcRelConnects"
      [] t = "IfcRelAssigns" -> "IfcRelationship"
      [] t = "IfcRelAssignsToGroup" -> "IfcRelAssigns"
      [] t = "IfcRelationship" -> "IfcRoot"
      [] OTHER -> ""

RECURSIVE TypeIsA(_, _)
\* type t is name, or inherits from it.
TypeIsA(t, name) ==
    IF t = "" THEN FALSE
    ELSE IF t = name THEN TRUE
    ELSE TypeIsA(Supertype(t), name)

----------------------------------------------------------------------------
(* Strings: a str is a sequence of one-character strings.                  *)

\* string.punctuation, in its order (the quotes, the backslash and the
\* backtick are written DQUOTE, QUOTE, BACKSLASH and BACKTICK).
Punctuation ==
    <<"!", "DQUOTE", "#", "$", "%", "&", "QUOTE", "(", ")", "*", "+", ",", "-", ".",
      "/", ":", ";", "<", "=", ">", "?", "@", "[", "BACKSLASH", "]", "^", "_", "BACKTICK",
      "{", "|", "}", "~">>

UpperCase ==
    <<"A", "B", "C", "D", "E", "F", "G", "H", "I", "J", "K", "L", "M",
      "N", "O", "P", "Q", "R", "S", "T", "U", "V", "W", "X", "Y", "Z">>

LowerCase ==
    <<"a", "b", "c", "d", "e", "f", "g", "h", "i", "j", "k", "l", "m",
      "n", "o", "p", "q", "r", "s", "t", "u", "v", "w", "x", "y", "z">>

\* str.replace(c, empty): s without the occurrences of the character c.
RemoveChar(s, c) == Filter(s, LAMBDA x : x # c)

RECURSIVE StripChars(_, _)
\* The loop of clean_str: for each character of chars in turn, remove it
\* from s (the characters of the first half of chars, then those of the
\* second half).
StripChars(s, chars) ==
    IF chars = <<>> THEN s
    ELSE IF Len(chars) = 1
    THEN IF chars[1] \in Range(s) THEN RemoveChar(s, chars[1]) ELSE s
    ELSE Let(StripChars(s, SubSeq(chars, 1, Len(chars) \div 2)), LAMBDA t :
             StripChars(t, SubSeq(chars, Len(chars) \div 2 + 1, Len(chars))))

\* tools.clean_str: None for None, else the string without punctuation.
clean_str(str_in) ==
    IF IsNone(str_in) THEN None ELSE Some(StripChars(Val(str_in), Punctuation))

\* str.lower() on one character.
LowerChar(c) ==
    IF \E i \in 1..Len(UpperCase) : UpperCase[i] = c
    THEN LowerCase[CHOOSE i \in 1..Len(UpperCase) : UpperCase[i] = c]
    ELSE c

\* str.lower().
lower(s) == Map(s, LowerChar)

\* IfcBaseEntity.codename on a display name (an optional str): the outcome
\* [exc, val]; None has no lower(), which raises AttributeError.
codename(name) ==
    Let(clean_str(name), LAMBDA cleaned :
        IF IsNone(cleaned) THEN [exc |-> "AttributeError", val |-> <<>>]
        ELSE [exc |-> "", val |-> RemoveChar(lower(Val(cleaned)), " ")])

----------------------------------------------------------------------------
(* Raw records (ifcopenshell.entity_instance) and the file that holds them.*)
(* A record is [type, attrs]: its IFC type and its attribute values, each  *)
(* optional.  A relation is a record of the file too, kept apart:          *)
(* [type, relating, related].  Inverse attributes are computed from the    *)
(* relations, in file order.                                               *)

\* A function from a sequence of <<key, value>> pairs.
Dict(pairs) ==
    [k \in {pairs[i][1] : i \in 1..Len(pairs)} |->
        pairs[CHOOSE i \in 1..Len(pairs) : pairs[i][1] = k][2]]

\* The ids of the records of file f.
RecIds(f) == 1..Len(f.recs)

\* raw.is_a(name) for the record r of f.
is_a(f, r, name) == TypeIsA(f.recs[r].type, name)

\* raw.get_info(): the attribute dictionary, with the key 'type'.
get_info(f, r) ==
    [k \in DOMAIN f.recs[r].attrs \cup {"type"} |->
        IF k = "type" THEN Some(f.recs[r].type) ELSE f.recs[r].attrs[k]]

\* dict.get(key): None when the key is missing.
DictGet(d, k) == IF k \in DOMAIN d THEN d[k] ELSE None

\* The relations of f of kind relType that list r among their related
\* records (an inverse attribute on the related side), in file order.
RelsRelated(f, r, relType) ==
    Filter(f.rels, LAMBDA x : TypeIsA(x.type, relType) /\ r \in Range(x.related))

\* The relations of f of kind relType whose relating record is r (an
\* inverse attribute on the relating side), in file order.
RelsRelating(f, r, relType) ==
    Filter(f.rels, LAMBDA x : TypeIsA(x.type, relType) /\ x.relating = r)

\* raw.VoidsElements: IfcRelVoidsElement FOR RelatedOpeningElement.
VoidsElements(f, r) == RelsRelated(f, r, "IfcRelVoidsElement")

\* raw.ContainedInStructure: IfcRelContainedInSpatialStructure FOR RelatedElements.
ContainedInStructure(f, r) == RelsRelated(f, r, "IfcRelContainedInSpatialStructure")

\* raw.Decomposes: IfcRelDecomposes FOR RelatedObjects.
Decomposes(f, r) == RelsRelated(f, r, "IfcRelDecomposes")

\* raw.IsDecomposedBy: IfcRelDecomposes FOR RelatingObject.
IsDecomposedBy(f, r) == RelsRelating(f, r, "IfcRelDecomposes")

\* raw.IsGroupedBy: IfcRelAssignsToGroup FOR RelatingGroup.
IsGroupedBy(f, r) == RelsRelating(f, r, "IfcRelAssignsToGroup")

\* raw.IsDefinedBy: IfcRelDefines FOR RelatedObjects.
IsDefinedBy(f, r) == RelsRelated(f, r, "IfcRelDefines")

----------------------------------------------------------------------------
(* The schema registry, as far as the wrappers read it.                    *)

\* The characters of the attribute names the registry declares.
Chars(attr) ==
    CASE attr = "LiningDepth" -> <<"L", "i", "n", "i", "n", "g", "D", "e", "p", "t", "h">>
      [] attr = "LiningThickness" ->
            <<"L", "i", "n", "i", "n", "g", "T", "h", "i", "c", "k", "n", "e", "s", "s">>
      [] attr = "MethodOfMeasurement" ->
            <<"M", "e", "t", "h", "o", "d", "O", "f", "M", "e", "a", "s", "u", "r", "e",
              "m", "e", "n", "t">>
      [] attr = "Quantities" -> <<"Q", "u", "a", "n", "t", "i", "t", "i", "e", "s">>
      [] attr = "HasProperties" ->
            <<"H", "a", "s", "P", "r", "o", "p", "e", "r", "t", "i", "e", "s">>

\* IfcSchemaEntity.attribute_names of the entity the registry holds for an
\* IFC type: its own attribute names, sorted ascending.
attribute_names(type) ==
    CASE type = "IfcDoorLiningProperties" -> <<"LiningDepth", "LiningThickness">>
      [] type = "IfcElementQuantity" -> <<"MethodOfMeasurement", "Quantities">>
      [] type = "IfcPropertySet" -> <<"HasProperties">>
      [] OTHER -> <<>>

\* IfcBaseEntity.schema_metadata then .attribute_names, for a wrapper whose
\* registry is schema (optional) and whose record has the given type:
\* AttributeError without a registry, since None has no get_entity.
schema_attribute_names(schema, type) ==
    IF IsNone(schema) THEN [exc |-> "AttributeError", val |-> <<>>]
    ELSE [exc |-> "", val |-> attribute_names(type)]

----------------------------------------------------------------------------
(* Wrapper instances and IfcBaseEntity.__init__.                           *)

\* The lazily loaded fields of the wrappers.
LazyFields ==
    {"_parent", "_kids", "_property_sets", "_quantities", "_object_type",
     "_properties", "_value", "_unit"}

\* A call's arguments that may be of the wrong Python type.
RawArg(r) == [kind |-> "entity_instance", id |-> r]

NoneArg == [kind |-> "None"]

StrArg == [kind |-> "str"]

TupleArg(names) == [kind |-> "tuple", names |-> names]

\* The machine state a call works on.
M(h, l, fi) == [heap |-> h, loads |-> l, first |-> fi]

\* A call's outcome.
Out(m, exc, val) == [m |-> m, exc |-> exc, val |-> val]

\* The checks of IfcBaseEntity.__init__: the exception it raises, or "".
BaseInit(f, raw_obj_entity, expected_types) ==
    IF raw_obj_entity.kind # "entity_instance" THEN "ValueError"
    ELSE IF expected_types.kind # "tuple" THEN "ValueError"
    ELSE IF \E i \in 1..Len(expected_types.names) :
                ~is_a(f, raw_obj_entity.id, expected_types.names[i])
         THEN "ValueError"
    ELSE ""

\* The fields of a wrapper right after its __init__ chain returned.
NewWrapper(cls, r, schema, pset, prop_name) ==
    [cls |-> cls, raw |-> r, schema |-> schema,
     property_set |-> pset, prop_name |-> prop_name,
     _parent |-> None, _kids |-> None, _property_sets |-> None,
     _quantities |-> None, _object_type |-> None,
     _properties |-> None, _value |-> None, _unit |-> None]

\* m with one more wrapper instance on the heap.
Alloc(m, w) ==
    M(Append(m.heap, w),
      Append(m.loads, [fld \in LazyFields |-> 0]),
      Append(m.first, [fld \in LazyFields |-> None]))

\* cls(raw, schema, expected_types=..., pset=..., prop_name=...): the new
\* instance, or the ValueError of IfcBaseEntity.__init__.
Construct(m, f, cls, raw_obj_entity, schema, expected_types, pset, prop_name) ==
    Let(BaseInit(f, raw_obj_entity, expected_types), LAMBDA exc :
        IF exc # "" THEN Out(m, exc, None)
        ELSE Out(Alloc(m, NewWrapper(cls, raw_obj_entity.id, schema, pset, prop_name)),
                 "", Some(Len(m.heap) + 1)))

\* The default expected_types of IfcObjectEntity.
DefaultExpectedTypes == TupleArg(<<"IfcObject">>)

\* IfcObjectEntity(raw, schema, expected_types=...).
IfcObjectEntity(m, f, raw_obj_entity, schema, expected_types) ==
    Construct(m, f, "IfcObjectEntity", raw_obj_entity, schema, expected_types,
              None, None)

RECURSIVE ConstructAll(_, _, _, _)
\* tuple(IfcObjectEntity(raw, schema) for raw in raws): the wrappers are
\* built in order and the first ValueError ends the call.
ConstructAll(m, f, raws, schema) ==
    IF raws = <<>> THEN Out(m, "", <<>>)
    ELSE Let(IfcObjectEntity(m, f, RawArg(Head(raws)), schema, DefaultExpectedTypes),
             LAMBDA o :
                IF o.exc # "" THEN Out(m, o.exc, <<>>)
                ELSE Let(ConstructAll(o.m, f, Tail(raws), schema), LAMBDA rest :
                         IF rest.exc # "" THEN Out(m, rest.exc, <<>>)
                         ELSE Out(rest.m, "", <<Val(o.val)>> \o rest.val)))

\* IfcBaseEntity.name of the wrapper w: info.get('Name'), and the attribute
\* name for a type-level pseudo-property.
name(m, f, w) ==
    IF m.heap[w].cls = "IfcObjectEntityTypeProperty"
    THEN IF IsNone(m.heap[w].prop_name) THEN None
         ELSE Some(Chars(Val(m.heap[w].prop_name)))
    ELSE DictGet(get_info(f, m.heap[w].raw), "Name")

\* IfcBaseEntity.global_id.
global_id(m, f, w) == DictGet(get_info(f, m.heap[w].raw), "GlobalId")

\* IfcBaseEntity.type_name.
type_name(m, f, w) == DictGet(get_info(f, m.heap[w].raw), "type")

----------------------------------------------------------------------------
(* Lazy accessors: "if self._x is None: self._x = self._load_x()".         *)

\* m after one more run of the loader of field fld of wrapper w.
CountLoad(m, w, fld) ==
    [m EXCEPT !.loads[w][fld] = @ + 1]

\* m after an access of field fld of w returned val: the first returned
\* value is remembered.
NoteAccess(m, w, fld, val) ==
    IF IsNone(m.first[w][fld]) THEN [m EXCEPT !.first[w][fld] = Some(val)] ELSE m

\* A getter that runs the loader on every access and never keeps its value.
LazyNoStore(m, w, fld, o) ==
    IF o.exc # "" THEN Out(CountLoad(o.m, w, fld), o.exc, None)
    ELSE Out(NoteAccess(CountLoad(o.m, w, fld), w, fld, o.val), "", o.val)

\* The property getter of a lazy field: when the field is None the loader
\* runs (its outcome is o, computed on m) and its value is stored; the
\* field is returned.  An exception of the loader leaves the field as it is.
Lazy(m, w, fld, o) ==
    IF ~IsNone(m.heap[w][fld])
    THEN Out(NoteAccess(m, w, fld, m.heap[w][fld]), "", m.heap[w][fld])
    ELSE IF o.exc # ""
         THEN Out(CountLoad(o.m, w, fld), o.exc, None)
         ELSE Out(NoteAccess([CountLoad(o.m, w, fld) EXCEPT !.heap[w][fld] = o.val],
                             w, fld, o.val),
                  "", o.val)

----------------------------------------------------------------------------
(* IfcObjectEntity: parent, kids and object type.                          *)

\* IfcObjectEntity._get_relating_object on the record r: the raw parent
\* record, optional.
_get_relating_object(f, r) ==
    IF is_a(f, r, "IfcFeatureElementSubtraction") /\ Len(VoidsElements(f, r)) = 1
    THEN Some(VoidsElements(f, r)[1].relating)
    ELSE IF is_a(f, r, "IfcElement") /\ Len(ContainedInStructure(f, r)) = 1
    THEN Some(ContainedInStructure(f, r)[1].relating)
    ELSE IF is_a(f, r, "IfcObjectDefinition") /\ Len(Decomposes(f, r)) = 1
    THEN Some(Decomposes(f, r)[1].relating)
    ELSE None

\* IfcObjectEntity._get_related_objects on the record r: the raw kid
\* records, optional.
_get_related_objects(f, r) ==
    IF is_a(f, r, "IfcObjectDefinition")
    THEN LET entity_relations ==
                 IF is_a(f, r, "IfcZone") THEN IsGroupedBy(f, r)
                 ELSE IsDecomposedBy(f, r)
         IN Some(Flatten(Map(entity_relations, LAMBDA rel : rel.related)))
    ELSE None

\* IfcObjectEntity._load_parent.
_load_parent(m, f, w) ==
    Let(_get_relating_object(f, m.heap[w].raw), LAMBDA raw_parent_entity :
        IF ~IsNone(raw_parent_entity)
        THEN IfcObjectEntity(m, f, RawArg(Val(raw_parent_entity)), m.heap[w].schema,
                             DefaultExpectedTypes)
        ELSE Out(m, "", None))

\* IfcObjectEntity._load_kids.
_load_kids(m, f, w) ==
    Let(_get_related_objects(f, m.heap[w].raw), LAMBDA raw_kid_entities :
        IF ~IsNone(raw_kid_entities)
        THEN Let(ConstructAll(m, f, Val(raw_kid_entities), m.heap[w].schema), LAMBDA o :
                 IF o.exc # "" THEN Out(m, o.exc, None) ELSE Out(o.m, "", Some(o.val)))
        ELSE Out(m, "", None))

\* IfcObjectEntity._load_object_type.
_load_object_type(m, f, w) ==
    Let(IF is_a(f, m.heap[w].raw, "IfcObject")
        THEN Filter(IsDefinedBy(f, m.heap[w].raw),
                    LAMBDA rel : TypeIsA(rel.type, "IfcRelDefinesByType"))
        ELSE <<>>,
        LAMBDA byType :
           IF byType # <<>>
           THEN IfcObjectEntity(m, f, RawArg(byType[1].relating), m.heap[w].schema,
                                TupleArg(<<"IfcTypeProduct">>))
           ELSE Out(m, "", None))

\* IfcObjectEntity.parent.
parent(m, f, w) == Lazy(m, w, "_parent", _load_parent(m, f, w))

\* IfcObjectEntity.kids.
kids(m, f, w) == Lazy(m, w, "_kids", _load_kids(m, f, w))

\* IfcObjectEntity.object_type.
object_type(m, f, w) == Lazy(m, w, "_object_type", _load_object_type(m, f, w))

\* IfcObjectEntity.composition_type.
composition_type(m, f, w) ==
    IF is_a(f, m.heap[w].raw, "IfcSpatialStructureElement")
    THEN DictGet(get_info(f, m.heap[w].raw), "CompositionType")
    ELSE None

\* IfcObjectEntity.is_element.
is_element(m, f, w) == composition_type(m, f, w) = Some("ELEMENT")

----------------------------------------------------------------------------
(* Property sets, properties and quantities.                               *)

\* IfcObjectEntityPropertySetBase.create: the wrapper class chosen for the
\* record r ("" when the record is ignored).
PropertySetClass(f, r) ==
    IF is_a(f, r, "IfcPropertySet") THEN "IfcObjectEntityPropertySet"
    ELSE IF is_a(f, r, "IfcPropertySetDefinition") THEN "IfcObjectEntityTypePropertySet"
    ELSE ""

\* The expected_types each wrapper class passes to IfcBaseEntity.__init__.
ExpectedTypesOf(cls) ==
    CASE cls = "IfcObjectEntityPropertySet" -> TupleArg(<<"IfcPropertySet">>)
      [] cls = "IfcObjectEntityTypePropertySet" -> TupleArg(<<"IfcPropertySetDefinition">>)
      [] cls = "IfcObjectEntitySimpleProperty" -> TupleArg(<<"IfcSimpleProperty">>)
      [] cls = "IfcObjectEntityTypeProperty" -> TupleArg(<<"IfcPropertySetDefinition">>)
      [] cls = "IfcObjectEntitySimpleQuantity" -> TupleArg(<<"IfcPhysicalSimpleQuantity">>)
      [] OTHER -> DefaultExpectedTypes

\* IfcObjectEntityPropertySetBase.create(raw_data, schema): val is the new
\* wrapper, or None for an ignored record.
PropertySetCreate(m, f, r, schema) ==
    Let(PropertySetClass(f, r), LAMBDA cls :
        IF cls = "" THEN Out(m, "", None)
        ELSE Construct(m, f, cls, RawArg(r), schema, ExpectedTypesOf(cls), None, None))

\* A factory that takes every record for a simple property.
PropertyCreateAny(m, f, r, schema, pset, prop_name) ==
    Construct(m, f, "IfcObjectEntitySimpleProperty", RawArg(r), schema,
              ExpectedTypesOf("IfcObjectEntitySimpleProperty"), pset, None)

\* IfcObjectEntityPropertyBase.create(raw_data, schema, pset=, prop_name=).
PropertyCreate(m, f, r, schema, pset, prop_name) ==
    IF is_a(f, r, "IfcSimpleProperty")
    THEN Construct(m, f, "IfcObjectEntitySimpleProperty", RawArg(r), schema,
                   ExpectedTypesOf("IfcObjectEntitySimpleProperty"), pset, None)
    ELSE IF is_a(f, r, "IfcPropertySetDefinition")
    THEN Construct(m, f, "IfcObjectEntityTypeProperty", RawArg(r), schema,
                   ExpectedTypesOf("IfcObjectEntityTypeProperty"), pset, prop_name)
    ELSE Out(m, "", None)

\* IfcObjectEntityQuantityBase.create(raw_data, schema).
QuantityCreate(m, f, r, schema) ==
    IF is_a(f, r, "IfcPhysicalSimpleQuantity")
    THEN Construct(m, f, "IfcObjectEntitySimpleQuantity", RawArg(r), schema,
                   ExpectedTypesOf("IfcObjectEntitySimpleQuantity"), None, None)
    ELSE Out(m, "", None)

RECURSIVE CreateEach(_, _, _, _, _, _)
\* The loops "for raw in raws: x = create(raw); if x is not None: xs += (x,)"
\* of the loaders: which is "pset", "property" or "quantity"; args gives, for
\* a property, its owning set and, per element, its prop_name.
CreateEach(m, f, which, raws, schema, args) ==
    IF raws = <<>> THEN Out(m, "", <<>>)
    ELSE Let(CASE which = "pset" -> PropertySetCreate(m, f, Head(raws), schema)
               [] which = "quantity" -> QuantityCreate(m, f, Head(raws), schema)
               [] which = "property" ->
                    PropertyCreate(m, f, Head(raws), schema, args.pset,
                                   Head(args.prop_names)),
             LAMBDA o :
                IF o.exc # "" THEN Out(o.m, o.exc, <<>>)
                ELSE Let(CreateEach(o.m, f, which, Tail(raws), schema,
                                    IF which = "property"
                                    THEN [args EXCEPT !.prop_names = Tail(@)]
                                    ELSE args),
                         LAMBDA rest :
                            Out(rest.m, rest.exc,
                                (IF IsNone(o.val) THEN <<>> ELSE o.val) \o rest.val)))

\* The targets (RelatingPropertyDefinition) of the IfcRelDefinesByProperties
\* relations among r.IsDefinedBy, in relation order.
DefinedByProperties(f, r) ==
    Map(Filter(IsDefinedBy(f, r),
               LAMBDA rel : TypeIsA(rel.type, "IfcRelDefinesByProperties")),
        LAMBDA rel : rel.relating)

\* _load_property_sets of an IfcObject that keeps the IfcElementQuantity
\* targets among the property sets.
LoadPropertySetsWithQuantities(m, f, w) ==
    Let(DefinedByProperties(f, m.heap[w].raw), LAMBDA raw_psets :
        IF Len(raw_psets) > 0
        THEN Let(CreateEach(m, f, "pset", raw_psets, m.heap[w].schema, <<>>), LAMBDA o :
                 IF o.exc # "" THEN Out(o.m, o.exc, None) ELSE Out(o.m, "", Some(o.val)))
        ELSE Out(m, "", None))

\* IfcObjectEntity._load_property_sets.  For a type object the record's
\* HasPropertySets is read as it is: None when the attribute is unset, and
\* len(None) raises TypeError.
_load_property_sets(m, f, w) ==
    Let(IF is_a(f, m.heap[w].raw, "IfcObject")
        THEN Some(Filter(DefinedByProperties(f, m.heap[w].raw),
                         LAMBDA ps : ~is_a(f, ps, "IfcElementQuantity")))
        ELSE IF is_a(f, m.heap[w].raw, "IfcTypeObject")
        THEN DictGet(get_info(f, m.heap[w].raw), "HasPropertySets")
        ELSE Some(<<>>),
        LAMBDA raw_psets :
           IF IsNone(raw_psets) THEN Out(m, "TypeError", None)
           ELSE IF Len(Val(raw_psets)) > 0
           THEN Let(CreateEach(m, f, "pset", Val(raw_psets), m.heap[w].schema, <<>>),
                    LAMBDA o :
                       IF o.exc # "" THEN Out(o.m, o.exc, None)
                       ELSE Out(o.m, "", Some(o.val)))
           ELSE Out(m, "", None))

\* IfcObjectEntity._load_quantities.
_load_quantities(m, f, w) ==
    IF is_a(f, m.heap[w].raw, "IfcObject")
    THEN LET raw_elmt_qty == Filter(DefinedByProperties(f, m.heap[w].raw),
                                    LAMBDA ps : is_a(f, ps, "IfcElementQuantity"))
             members == Flatten(Map(raw_elmt_qty,
                                    LAMBDA q : Val(f.recs[q].attrs["Quantities"])))
         IN Let(CreateEach(m, f, "quantity", members, m.heap[w].schema, <<>>), LAMBDA o :
                IF o.exc # "" THEN Out(o.m, o.exc, None) ELSE Out(o.m, "", Some(o.val)))
    ELSE Out(m, "", None)

\* IfcObjectEntity.property_sets.
property_sets(m, f, w) == Lazy(m, w, "_property_sets", _load_property_sets(m, f, w))

\* IfcObjectEntity.quantities.
quantities(m, f, w) == Lazy(m, w, "_quantities", _load_quantities(m, f, w))

\* IfcObjectEntityPropertySet._load_properties and
\* IfcObjectEntityTypePropertySet._load_properties: self._properties is set
\* to () first and stays so when the registry lookup raises.
_load_properties(m, f, w) ==
    IF m.heap[w].cls = "IfcObjectEntityPropertySet"
    THEN Let(Val(f.recs[m.heap[w].raw].attrs["HasProperties"]), LAMBDA raws :
             Let(CreateEach([m EXCEPT !.heap[w]._properties = Some(<<>>)], f, "property",
                            raws, m.heap[w].schema,
                            [pset |-> Some(w), prop_names |-> [i \in 1..Len(raws) |-> None]]),
                 LAMBDA o :
                    Out([o.m EXCEPT !.heap[w]._properties = Some(o.val)], o.exc,
                        Some(o.val))))
    ELSE Let(schema_attribute_names(m.heap[w].schema, f.recs[m.heap[w].raw].type),
             LAMBDA names :
                IF names.exc # ""
                THEN Out([m EXCEPT !.heap[w]._properties = Some(<<>>)], names.exc, None)
                ELSE Let(CreateEach([m EXCEPT !.heap[w]._properties = Some(<<>>)], f,
                                    "property",
                                    [i \in 1..Len(names.val) |-> m.heap[w].raw],
                                    m.heap[w].schema,
                                    [pset |-> Some(w), prop_names |-> Map(names.val, Some)]),
                         LAMBDA o :
                            Out([o.m EXCEPT !.heap[w]._properties = Some(o.val)], o.exc,
                                Some(o.val))))

\* IfcObjectEntityPropertySetBase.properties.
properties(m, f, w) == Lazy(m, w, "_properties", _load_properties(m, f, w))

\* get_property_codenames that gives the names as they are.
PropertyNames(m, f, w) ==
    Let(properties(m, f, w), LAMBDA o :
        IF o.exc # "" THEN Out(o.m, o.exc, <<>>)
        ELSE Out(o.m, "",
                 Map(IF IsNone(o.val) THEN <<>> ELSE Val(o.val),
                     LAMBDA p : Val(name(o.m, f, p)))))

\* IfcObjectEntityPropertySetBase.get_property_codenames: the codename of
\* each property, in order; a property without a name raises AttributeError.
get_property_codenames(m, f, w) ==
    Let(properties(m, f, w), LAMBDA o :
        IF o.exc # "" THEN Out(o.m, o.exc, <<>>)
        ELSE Let(Map(IF IsNone(o.val) THEN <<>> ELSE Val(o.val),
                     LAMBDA p : codename(name(o.m, f, p))),
                 LAMBDA cns :
                    IF \E i \in 1..Len(cns) : cns[i].exc # ""
                    THEN Out(o.m, "AttributeError", <<>>)
                    ELSE Out(o.m, "", Map(cns, LAMBDA c : c.val))))

\* The field of a quantity record that holds its value:
\* type_name[len('IfcQuantity'):] + 'Value'.
QuantityValueName(type) ==
    CASE type = "IfcQuantityLength" -> "LengthValue"
      [] type = "IfcQuantityArea" -> "AreaValue"
      [] OTHER -> "Value"

\* The raw field read behind value: KeyError and AttributeError are caught
\* and leave None.
_load_value(m, f, w) ==
    LET info == get_info(f, m.heap[w].raw)
        cls == m.heap[w].cls
    IN CASE cls = "IfcObjectEntitySimpleProperty" ->
               IF "NominalValue" \in DOMAIN info /\ ~IsNone(info["NominalValue"])
               THEN Out(m, "", Some(Val(info["NominalValue"]).wrappedValue))
               ELSE Out(m, "", None)
         [] cls = "IfcObjectEntityTypeProperty" ->
               IF ~IsNone(m.heap[w].prop_name) /\ Val(m.heap[w].prop_name) \in DOMAIN info
               THEN Out(m, "", info[Val(m.heap[w].prop_name)])
               ELSE Out(m, "", None)
         [] cls = "IfcObjectEntitySimpleQuantity" ->
               IF QuantityValueName(Val(info["type"])) \in DOMAIN info
               THEN Out(m, "", info[QuantityValueName(Val(info["type"]))])
               ELSE Out(m, "", None)

\* The raw field read behind unit: info.get('Unit').
_load_unit(m, f, w) == Out(m, "", DictGet(get_info(f, m.heap[w].raw), "Unit"))

\* value of a property or quantity wrapper.
value(m, f, w) == Lazy(m, w, "_value", _load_value(m, f, w))

\* unit of a property or quantity wrapper; a type-level pseudo-property keeps
\* the base class getter, which returns the unset field.
unit(m, f, w) ==
    IF m.heap[w].cls = "IfcObjectEntityTypeProperty"
    THEN Out(NoteAccess(m, w, "_unit", m.heap[w]._unit), "", m.heap[w]._unit)
    ELSE Lazy(m, w, "_unit", _load_unit(m, f, w))

----------------------------------------------------------------------------
(* IfcObjectEntity lookup helpers.                                         *)

RECURSIVE CollectProperties(_, _, _, _)
\* The loop of get_properties over the property sets psets: a set is kept
\* when pset_codename is None or equals its codename, and its properties
\* are appended.
CollectProperties(m, f, psets, pset_codename) ==
    IF psets = <<>> THEN Out(m, "", <<>>)
    ELSE Let(IF IsNone(pset_codename) THEN [exc |-> "", val |-> <<>>]
             ELSE codename(name(m, f, Head(psets))),
             LAMBDA cn :
                IF cn.exc # "" THEN Out(m, cn.exc, <<>>)
                ELSE IF IsNone(pset_codename) \/ cn.val = Val(pset_codename)
                THEN Let(properties(m, f, Head(psets)), LAMBDA o :
                         IF o.exc # "" THEN Out(o.m, o.exc, <<>>)
                         ELSE Let(CollectProperties(o.m, f, Tail(psets), pset_codename),
                                  LAMBDA rest :
                                     Out(rest.m, rest.exc, Val(o.val) \o rest.val)))
                ELSE CollectProperties(m, f, Tail(psets), pset_codename))

\* IfcObjectEntity.get_properties(pset_codename=...).
get_properties(m, f, w, pset_codename) ==
    Let(property_sets(m, f, w), LAMBDA o :
        IF o.exc # "" THEN Out(o.m, o.exc, <<>>)
        ELSE CollectProperties(o.m, f, IF IsNone(o.val) THEN <<>> ELSE Val(o.val),
                               pset_codename))

RECURSIVE FirstByCodename(_, _, _, _)
\* The loop of get_property: the first property of props whose codename is
\* property_codename; reading the codename of a property may raise.
FirstByCodename(m, f, props, property_codename) ==
    IF props = <<>> THEN Out(m, "", None)
    ELSE Let(codename(name(m, f, Head(props))), LAMBDA cn :
             IF cn.exc # "" THEN Out(m, cn.exc, None)
             ELSE IF cn.val = property_codename THEN Out(m, "", Some(Head(props)))
             ELSE FirstByCodename(m, f, Tail(props), property_codename))

\* IfcObjectEntity.get_property(property_codename, pset_codename=...).
get_property(m, f, w, property_codename, pset_codename) ==
    Let(get_properties(m, f, w, pset_codename), LAMBDA o :
        IF o.exc # "" THEN Out(o.m, o.exc, None)
        ELSE FirstByCodename(o.m, f, o.val, property_codename))

\* IfcObjectEntity.get_property_value(property_codename, pset_codename=...):
\* val is the pair (value, unit).
get_property_value(m, f, w, property_codename, pset_codename) ==
    Let(get_property(m, f, w, property_codename, pset_codename), LAMBDA o :
        IF o.exc # "" THEN Out(o.m, o.exc, <<None, None>>)
        ELSE IF IsNone(o.val) THEN Out(o.m, "", <<None, None>>)
        ELSE Let(value(o.m, f, Val(o.val)), LAMBDA v :
                 Let(unit(v.m, f, Val(o.val)), LAMBDA u :
                     Out(u.m, "", <<v.val, u.val>>))))

\* IfcObjectEntity.get_property_set(pset_codename): the first property set
\* with that codename.
get_property_set(m, f, w, pset_codename) ==
    Let(property_sets(m, f, w), LAMBDA o :
        IF o.exc # "" THEN Out(o.m, o.exc, None)
        ELSE FirstByCodename(o.m, f, IF IsNone(o.val) THEN <<>> ELSE Val(o.val),
                             pset_codename))

----------------------------------------------------------------------------
(* The files the model reads: well-typed records and relations.            *)

\* The largest number of relation records a file draws from its candidates.
MaxRels == 2

\* The largest number of times loaders run again, over all the lazy fields
\* of a run.
MaxReloads == 1

NameA == <<"A", " ", "b">>

NameB == <<"H", "(", "x", ")">>

\* A rooted record (IfcRoot): it has a GlobalId and an optional Name.
RootRec(type, gid, nm, more) ==
    [type |-> type,
     attrs |-> Dict(<< <<"GlobalId", Some(gid)>>, <<"Name", nm>> >> \o more)]

\* A property or quantity record: it has a Name and no GlobalId.
LeafRec(type, nm, more) ==
    [type |-> type, attrs |-> Dict(<< <<"Name", nm>> >> \o more)]

Rel(type, relating, related) ==
    [type |-> type, relating |-> relating, related |-> related]

\* The subsequences of s of at most n elements.
SubSeqs(s, n) ==
    {SelectSeq(s, LAMBDA x : \E i \in keep : s[i] = x) :
        keep \in {k \in SUBSET (1..Len(s)) : Cardinality(k) <= n}}

\* Whether the relation x is well-typed over the records recs.
WellTyped(recs, x) ==
    LET T(r, t) == TypeIsA(recs[r].type, t) IN
    CASE x.type = "IfcRelAggregates" ->
            T(x.relating, "IfcObjectDefinition")
            /\ \A i \in 1..Len(x.related) : T(x.related[i], "IfcObjectDefinition")
      [] x.type = "IfcRelContainedInSpatialStructure" ->
            T(x.relating, "IfcSpatialStructureElement")
            /\ \A i \in 1..Len(x.related) : T(x.related[i], "IfcProduct")
      [] x.type = "IfcRelVoidsElement" ->
            T(x.relating, "IfcElement")
            /\ \A i \in 1..Len(x.related) : T(x.related[i], "IfcFeatureElementSubtraction")
      [] x.type = "IfcRelAssignsToGroup" ->
            T(x.relating, "IfcGroup")
            /\ \A i \in 1..Len(x.related) : T(x.related[i], "IfcObjectDefinition")
      [] x.type = "IfcRelDefinesByType" ->
            T(x.relating, "IfcTypeObject")
            /\ \A i \in 1..Len(x.related) : T(x.related[i], "IfcObject")
      [] x.type = "IfcRelDefinesByProperties" ->
            T(x.relating, "IfcPropertySetDefinition")
            /\ \A i \in 1..Len(x.related) : T(x.related[i], "IfcObject")

\* A file on disk: its records, its relations, and the records a user
\* wraps; whether the path names a file, the schema identifiers of its
\* header, and the schema identifier of the library that opens it.
File(recs, rels, subjects) ==
    [recs |-> recs, rels |-> rels, subjects |-> subjects,
     is_file |-> TRUE, schema_identifiers |-> <<"IFC2X3">>,
     library_schema_identifier |-> <<>>]

\* The attributes of a property or quantity record of type mk, besides Name.
MemberAttrs(mk) ==
    CASE mk = "IfcPropertySingleValue" ->
            << <<"NominalValue", Some([wrappedValue |-> 2110, type |-> "IfcLengthMeasure"])>>,
               <<"Unit", None>> >>
      [] mk = "IfcComplexProperty" ->
            << <<"UsageName", Some("u")>>, <<"HasProperties", Some(<<>>)>> >>
      [] mk = "IfcQuantityLength" ->
            << <<"LengthValue", Some(5)>>, <<"Unit", Some("MM")>> >>
      [] mk = "IfcPhysicalComplexQuantity" ->
            << <<"HasQuantities", Some(<<>>)>> >>

\* The records of a navigation file: a site, a subject of type t2, a wall,
\* two type objects, a property set and an element quantity with one member
\* each.
NavRecs(t2) ==
    << RootRec("IfcSite", "g1", Some(NameA), << <<"CompositionType", Some("ELEMENT")>> >>),
       RootRec(t2, "g2", Some(NameB), <<>>),
       RootRec("IfcWall", "g3", None, <<>>),
       RootRec("IfcWallType", "g4", None, << <<"HasPropertySets", None>> >>),
       RootRec("IfcTypeObject", "g5", None, << <<"HasPropertySets", None>> >>),
       RootRec("IfcPropertySet", "g6", Some(NameA), << <<"HasProperties", Some(<<8>>)>> >>),
       RootRec("IfcElementQuantity", "g7", None,
               << <<"MethodOfMeasurement", None>>, <<"Quantities", Some(<<9>>)>> >>),
       LeafRec("IfcPropertySingleValue", Some(NameB), MemberAttrs("IfcPropertySingleValue")),
       LeafRec("IfcQuantityLength", Some(NameA), MemberAttrs("IfcQuantityLength")) >>

\* The relations a navigation file draws from, in file order.
NavRelCandidates ==
    << Rel("IfcRelVoidsElement", 3, <<2>>),
       Rel("IfcRelContainedInSpatialStructure", 1, <<2>>),
       Rel("IfcRelContainedInSpatialStructure", 1, <<3, 2>>),
       Rel("IfcRelAggregates", 1, <<2>>),
       Rel("IfcRelAggregates", 5, <<2>>),
       Rel("IfcRelAggregates", 2, <<3, 1>>),
       Rel("IfcRelAssignsToGroup", 2, <<3>>),
       Rel("IfcRelDefinesByType", 4, <<2>>),
       Rel("IfcRelDefinesByType", 5, <<3, 2>>),
       Rel("IfcRelDefinesByProperties", 6, <<2>>),
       Rel("IfcRelDefinesByProperties", 7, <<2, 3>>) >>

NavSubjectTypes == {"IfcWall", "IfcOpeningElement", "IfcZone"}

\* The navigation files: the user wraps the subject, record 2.
NavFiles ==
    {File(NavRecs(x[1]), x[2], {2}) :
        x \in {y \in NavSubjectTypes \X SubSeqs(NavRelCandidates, MaxRels) :
                  \A i \in 1..Len(y[2]) : WellTyped(NavRecs(y[1]), y[2][i])}}

----------------------------------------------------------------------------
(* The entity specification: a user wraps the subject record of a          *)
(* navigation file and reads the accessors of that entity, in any order    *)
(* and any number of times.                                                *)

NoResult ==
    [op |-> "", w |-> 0, arg |-> <<>>, again |-> FALSE, exc |-> "", val |-> <<>>]

\* The registry the reader passes to the wrappers it builds.
TheSchema == Some("IFC2X3")

\* The wrappers of class IfcObjectEntity the user built.
Entities == {w \in 1..Len(heap) : w = 1 /\ heap[w].cls = "IfcObjectEntity"}

Now == M(heap, loads, first)

\* The fields of the wrappers of m whose loader ran more than once.
Reloaded(m) ==
    {x \in (1..Len(m.loads)) \X LazyFields : m.loads[x[1]][x[2]] > 1}

\* The bound of the model on the runs of the loaders.
LoadsOk(m) ==
    /\ Cardinality(Reloaded(m)) <= MaxReloads
    /\ \A x \in Reloaded(m) : m.loads[x[1]][x[2]] <= MaxReloads + 1

\* The call op(arg) on the wrapper w (0 for a call on no wrapper) with
\* outcome o is made; fld is the lazy field an accessor reads ("" for
\* another call).  The heap changes and the call's result is recorded,
\* with whether the accessor had returned before on w.  The call is left
\* out when it exceeds the bound on reloads.
Call(op, w, fld, arg, o) ==
    /\ LoadsOk(o.m)
    /\ heap' = o.m.heap
    /\ loads' = o.m.loads
    /\ first' = o.m.first
    /\ result' = [op |-> op, w |-> w, arg |-> arg,
                  again |-> (fld # "" /\ ~IsNone(first[w][fld])),
                  exc |-> o.exc, val |-> o.val]
    /\ UNCHANGED <<file, reader>>

\* No wrapper, no reader and no call yet.
Fresh ==
    /\ heap = <<>>
    /\ loads = <<>>
    /\ first = <<>>
    /\ reader = None
    /\ result = NoResult

Init ==
    /\ file \in NavFiles
    /\ Fresh

\* IfcObjectEntity(raw_obj_entity, schema) on a subject of the file.
NewEntity ==
    /\ heap = <<>>
    /\ \E r \in file.subjects :
          Call("IfcObjectEntity", 0, "", <<r>>,
               IfcObjectEntity(Now, file, RawArg(r), TheSchema, DefaultExpectedTypes))

AccessParent == \E w \in Entities : Call("parent", w, "_parent", <<>>, parent(Now, file, w))

AccessKids == \E w \in Entities : Call("kids", w, "_kids", <<>>, kids(Now, file, w))

AccessObjectType ==
    \E w \in Entities : Call("object_type", w, "_object_type", <<>>, object_type(Now, file, w))

AccessPropertySets ==
    \E w \in Entities : Call("property_sets", w, "_property_sets", <<>>, property_sets(Now, file, w))

AccessQuantities ==
    \E w \in Entities : Call("quantities", w, "_quantities", <<>>, quantities(Now, file, w))

Next ==
    \/ NewEntity
    \/ AccessParent
    \/ AccessKids
    \/ AccessObjectType
    \/ AccessPropertySets
    \/ AccessQuantities

Spec == Init /\ [][Next]_vars

----------------------------------------------------------------------------
(* Properties of the entity specification.                                 *)

\* The parent record the priority rule by kind alone gives for the record
\* r: the first kind r belongs to decides, and its collection gives a
\* parent only when it holds exactly one relation.
ParentByKind(f, r) ==
    LET One(s) == IF Len(s) = 1 THEN Some(s[1].relating) ELSE None IN
    IF is_a(f, r, "IfcFeatureElementSubtraction") THEN One(VoidsElements(f, r))
    ELSE IF is_a(f, r, "IfcElement") THEN One(ContainedInStructure(f, r))
    ELSE IF is_a(f, r, "IfcObjectDefinition") THEN One(Decomposes(f, r))
    ELSE None

\* C3: whenever parent returns, it returns the wrapper of the record the
\* priority rule by kind alone gives (VoidsElements, then
\* ContainedInStructure, then Decomposes), and None when the collection of
\* the first kind the record belongs to holds zero or several relations; a
\* lower-priority relation is not consulted.
ParentDecidedByKindAlone ==
    (result.op = "parent" /\ result.exc = "") =>
        LET claimed == ParentByKind(file, heap[result.w].raw) IN
        IF IsNone(claimed) THEN IsNone(result.val)
        ELSE ~IsNone(result.val) /\ heap[Val(result.val)].raw = Val(claimed)

\* C4: the loader of each lazy field of each wrapper has run at most once,
\* whatever accesses were made and also when it loaded None.
LoadersRunAtMostOnce ==
    \A w \in 1..Len(loads) : \A fld \in LazyFields : loads[w][fld] <= 1

\* The lazy field behind each accessor of IfcObjectEntity that C5 names.
FieldOf(op) ==
    CASE op = "parent" -> "_parent"
      [] op = "kids" -> "_kids"
      [] op = "property_sets" -> "_property_sets"
      [] op = "quantities" -> "_quantities"

\* C5: an access to parent, kids, property_sets or quantities that returns
\* gives the very object the first access of that accessor on the same
\* entity gave: the same wrapper instances, whatever was called in between.
AccessReturnsFirstObject ==
    (result.op \in {"parent", "kids", "property_sets", "quantities"}
     /\ result.exc = "") =>
        first[result.w][FieldOf(result.op)] = Some(result.val)

\* C5: kids was read again, after other accessors created wrappers, and
\* returned the wrappers of its first access.
SecondAccessOfKids ==
    /\ result.op = "kids"
    /\ result.again
    /\ result.exc = ""
    /\ ~IsNone(result.val)
    /\ Val(result.val) # <<>>
    /\ Len(heap) > Len(Val(result.val)) + 1
    /\ first[result.w]["_kids"] = Some(result.val)

----------------------------------------------------------------------------
(* The property specification: a user wraps an element that carries        *)
(* property sets, reads the sets and looks property values up by          *)
(* codename.                                                               *)

\* The display names a property set or a property may carry.
OptionalNames == {None, Some(NameA), Some(NameB)}

\* The records of a property file: a wall, a property set named psn with
\* two single-valued properties, the first named pn, and a set of
\* predefined door lining properties.
PropRecs(psn, pn) ==
    << RootRec("IfcWall", "g1", Some(NameA), <<>>),
       RootRec("IfcPropertySet", "g2", psn, << <<"HasProperties", Some(<<4, 5>>)>> >>),
       RootRec("IfcDoorLiningProperties", "g3", Some(NameB),
               << <<"LiningDepth", Some(50)>>, <<"LiningThickness", None>> >>),
       LeafRec("IfcPropertySingleValue", pn, MemberAttrs("IfcPropertySingleValue")),
       LeafRec("IfcPropertySingleValue", Some(NameA),
               << <<"NominalValue", None>>, <<"Unit", Some("MM")>> >>) >>

\* The relations a property file draws from, in file order.
PropRelCandidates ==
    << Rel("IfcRelDefinesByProperties", 2, <<1>>),
       Rel("IfcRelDefinesByProperties", 3, <<1>>) >>

\* The property files: the user wraps the wall, record 1.
PropFiles ==
    {File(PropRecs(x[1], x[2]), x[3], {1}) :
        x \in OptionalNames \X OptionalNames \X SubSeqs(PropRelCandidates, MaxRels)}

\* The codenames a user looks up: those of the two names, and one no record
\* carries.
CodenameArgs == {codename(Some(NameA)).val, codename(Some(NameB)).val, <<"z">>}

\* The property-set wrappers on the heap.
PropertySets ==
    {w \in 1..Len(heap) :
        heap[w].cls \in {"IfcObjectEntityPropertySet", "IfcObjectEntityTypePropertySet"}}

\* The property and quantity wrappers on the heap.
Valued ==
    {w \in 1..Len(heap) :
        heap[w].cls \in {"IfcObjectEntitySimpleProperty", "IfcObjectEntityTypeProperty",
                         "IfcObjectEntitySimpleQuantity"}}

InitProps ==
    /\ file \in PropFiles
    /\ Fresh

GetPropertyValue ==
    \E w \in Entities :
        \E pc \in CodenameArgs :
            \E psc \in {None} \cup {Some(c) : c \in CodenameArgs} :
                Call("get_property_value", w, "", <<pc, psc>>,
                     get_property_value(Now, file, w, pc, psc))

GetProperties ==
    \E w \in Entities :
        \E psc \in {None} \cup {Some(c) : c \in CodenameArgs} :
            Call("get_properties", w, "", <<psc>>, get_properties(Now, file, w, psc))

NextProps ==
    \/ NewEntity
    \/ AccessPropertySets
    \/ GetPropertyValue
    \/ GetProperties

SpecProps == InitProps /\ [][NextProps]_vars

\* C6: get_property_value never raises, and it returns (None, None) or the
\* (value, unit) pair of a property of the entity whose codename is the one
\* asked for, whatever the names of the property sets and properties are,
\* including sets and properties without a name.
GetPropertyValueNeverRaises ==
    (result.op = "get_property_value") =>
        /\ result.exc = ""
        /\ \/ result.val = <<None, None>>
           \/ \E p \in Valued :
                 /\ codename(name(Now, file, p)) = [exc |-> "", val |-> result.arg[1]]
                 /\ result.val = <<heap[p]._value, heap[p]._unit>>

----------------------------------------------------------------------------
(* IfcDataReader.                                                          *)

\* The schema versions the registry can be built for.
IFC_SCHEMAS == {"IFC2X3", "IFC4"}

\* IfcDataReader.schema_version on the opened file f.
schema_version(f) ==
    IF Len(f.schema_identifiers) > 0 THEN Some(f.schema_identifiers[1])
    ELSE IF Len(f.library_schema_identifier) > 0
    THEN Some(f.library_schema_identifier[1])
    ELSE None

\* IfcSchema(schema_name): the registry, named by its version, or ValueError
\* for a name that is not among IFC_SCHEMAS.
IfcSchema(schema_name) ==
    IF IsNone(schema_name) \/ Val(schema_name) \notin IFC_SCHEMAS
    THEN [exc |-> "ValueError", val |-> None]
    ELSE [exc |-> "", val |-> schema_name]

\* file.by_type(entity_name) of the record provider: the records whose type
\* is entity_name or inherits from it, in file order; RuntimeError for a
\* name the provider's schema does not declare.
by_type(f, entity_name) ==
    IF entity_name # "IfcRoot" /\ Supertype(entity_name) = ""
    THEN [exc |-> "RuntimeError", val |-> <<>>]
    ELSE [exc |-> "",
          val |-> Filter([i \in 1..Len(f.recs) |-> i],
                         LAMBDA r : is_a(f, r, entity_name))]

\* What a caller may pass as parent_entity.
ParentArg(w) == [kind |-> "IfcObjectEntity", w |-> w]

RECURSIVE KeepWithParent(_, _, _, _)
\* The filter of _read_entities: the entities whose parent has the global
\* id of parent_entity; reading global_id on a parent that is None raises
\* AttributeError.
KeepWithParent(m, f, entities, parent_entity) ==
    IF entities = <<>> THEN Out(m, "", <<>>)
    ELSE Let(parent(m, f, Head(entities)), LAMBDA p :
             IF p.exc # "" THEN Out(m, p.exc, <<>>)
             ELSE IF IsNone(p.val) THEN Out(m, "AttributeError", <<>>)
             ELSE Let(KeepWithParent(p.m, f, Tail(entities), parent_entity), LAMBDA rest :
                      IF rest.exc # "" THEN Out(m, rest.exc, <<>>)
                      ELSE Out(rest.m, "",
                               (IF global_id(p.m, f, Val(p.val))
                                    = global_id(p.m, f, parent_entity.w)
                                THEN <<Head(entities)>> ELSE <<>>) \o rest.val)))

\* _read_entities with a provider whose unknown names give no record.
ReadEntitiesLenient(m, f, ifc_schema, entity_name, parent_entity) ==
    IF parent_entity.kind \notin {"None", "IfcObjectEntity"}
    THEN Out(m, "ValueError", <<>>)
    ELSE Let(ConstructAll(m, f, by_type(f, entity_name).val, ifc_schema), LAMBDA o :
             IF o.exc # "" \/ parent_entity.kind = "None" THEN o
             ELSE KeepWithParent(o.m, f, o.val, parent_entity))

\* IfcDataReader._read_entities(entity_name, parent_entity=...): the
\* wrappers of the records by_type gives, filtered by parent; the
\* provider's RuntimeError becomes ValueError, and any other exception
\* leaves the call as it is.  The wrappers of a call that raises are lost.
_read_entities(m, f, ifc_schema, entity_name, parent_entity) ==
    IF parent_entity.kind \notin {"None", "IfcObjectEntity"}
    THEN Out(m, "ValueError", <<>>)
    ELSE Let(by_type(f, entity_name), LAMBDA raws :
             IF raws.exc = "RuntimeError" THEN Out(m, "ValueError", <<>>)
             ELSE Let(ConstructAll(m, f, raws.val, ifc_schema), LAMBDA o :
                      IF o.exc # "" \/ parent_entity.kind = "None" THEN o
                      ELSE KeepWithParent(o.m, f, o.val, parent_entity)))

\* _read_project that takes the first IfcProject of several.
ReadProjectFirst(m, f, ifc_schema) ==
    Let(_read_entities(m, f, ifc_schema, "IfcProject", NoneArg), LAMBDA res :
        IF res.exc # "" THEN Out(m, res.exc, None)
        ELSE IF Len(res.val) < 1 THEN Out(m, "TypeError", None)
        ELSE Out(res.m, "", Some(res.val[1])))

\* IfcDataReader._read_project.
_read_project(m, f, ifc_schema) ==
    Let(_read_entities(m, f, ifc_schema, "IfcProject", NoneArg), LAMBDA res :
        IF res.exc # "" THEN Out(m, res.exc, None)
        ELSE IF Len(res.val) # 1 THEN Out(m, "TypeError", None)
        ELSE Out(res.m, "", Some(res.val[1])))

\* IfcDataReader(filename) on the file f: val is the reader, its registry
\* and its project.
IfcDataReader(m, f) ==
    IF ~f.is_file THEN Out(m, "ValueError", None)
    ELSE Let(IfcSchema(schema_version(f)), LAMBDA ifc_schema :
             IF ifc_schema.exc # "" THEN Out(m, ifc_schema.exc, None)
             ELSE Let(_read_project(m, f, ifc_schema.val), LAMBDA ifc_project :
                      IF ifc_project.exc # "" THEN Out(m, ifc_project.exc, None)
                      ELSE Out(ifc_project.m, "",
                               Some([ifc_schema |-> ifc_schema.val,
                                     ifc_project |-> Val(ifc_project.val)]))))

\* IfcDataReader.read_entity(entity_name, parent_entity=...) on reader rd.
read_entity(m, f, rd, entity_name, parent_entity) ==
    _read_entities(m, f, rd.ifc_schema, entity_name, parent_entity)

RECURSIVE SitesLoop(_, _, _, _)
\* The loop of read_sites over the site wrappers cur_ents: a site is kept
\* when undivided sites are not asked for or when it is an ELEMENT; for
\* another site whose parent is an ELEMENT, is_a is read on the parent
\* wrapper, which has no such attribute.
SitesLoop(m, f, cur_ents, undivided_only) ==
    IF cur_ents = <<>> THEN Out(m, "", <<>>)
    ELSE IF ~undivided_only \/ is_element(m, f, Head(cur_ents))
    THEN Let(SitesLoop(m, f, Tail(cur_ents), undivided_only), LAMBDA rest :
             Out(rest.m, rest.exc, <<Head(cur_ents)>> \o rest.val))
    ELSE Let(parent(m, f, Head(cur_ents)), LAMBDA p :
             IF p.exc # "" THEN Out(p.m, p.exc, <<>>)
             ELSE IF ~IsNone(p.val) /\ is_element(p.m, f, Val(p.val))
             THEN Out(p.m, "AttributeError", <<>>)
             ELSE SitesLoop(p.m, f, Tail(cur_ents), undivided_only))

\* IfcDataReader.read_sites(undivided_only=...) on reader rd.
read_sites(m, f, rd, undivided_only) ==
    Let(_read_entities(m, f, rd.ifc_schema, "IfcSite", NoneArg), LAMBDA o :
        IF o.exc # "" THEN o
        ELSE Let(SitesLoop(o.m, f, o.val, undivided_only), LAMBDA sites :
                 IF sites.exc # "" THEN Out(m, sites.exc, <<>>) ELSE sites))

\* IfcDataReader.read_walls() on reader rd: the wrappers read for IfcWall,
\* then those read for IfcWallStandardCase.
read_walls(m, f, rd) ==
    Let(_read_entities(m, f, rd.ifc_schema, "IfcWall", NoneArg), LAMBDA walls :
        IF walls.exc # "" THEN walls
        ELSE Let(_read_entities(walls.m, f, rd.ifc_schema, "IfcWallStandardCase", NoneArg),
                 LAMBDA cases :
                 IF cases.exc # "" THEN Out(m, cases.exc, <<>>)
                 ELSE Out(cases.m, "", walls.val \o cases.val)))

----------------------------------------------------------------------------
(* The reader specification: a user opens a file and reads entities from   *)
(* it, passing the wrappers earlier calls returned as parent_entity.       *)

\* The largest number of IfcProject records of a file.
MaxProjects == 2

\* The heap size from which the user makes no further read.
MaxHeap == 4

\* The global ids of the projects of a file.
ProjectIds == <<"p1", "p2", "p3", "p4">>

\* The records of a reader file: an undivided site, a site of composition
\* type c, a wall of type t, and n projects.
ReaderRecs(c, n, t) ==
    << RootRec("IfcSite", "g1", Some(NameA), << <<"CompositionType", Some("ELEMENT")>> >>),
       RootRec("IfcSite", "g2", Some(NameB), << <<"CompositionType", Some(c)>> >>),
       RootRec(t, "g3", None, <<>>) >>
    \o [i \in 1..n |-> RootRec("IfcProject", ProjectIds[i], None, <<>>)]

\* The relations a reader file draws from, in file order.
ReaderRelCandidates ==
    << Rel("IfcRelAggregates", 4, <<1>>),
       Rel("IfcRelAggregates", 1, <<2>>),
       Rel("IfcRelContainedInSpatialStructure", 2, <<3>>),
       Rel("IfcRelContainedInSpatialStructure", 1, <<3>>) >>

\* Whether the relation x names records of recs only.
InFile(recs, x) ==
    x.relating \in 1..Len(recs) /\ \A i \in 1..Len(x.related) : x.related[i] \in 1..Len(recs)

\* The headers of the reader files: whether the path names a file, and the
\* schema identifiers.
ReaderHeaders ==
    {<<TRUE, <<"IFC2X3">>>>, <<TRUE, <<"IFC4X3">>>>, <<FALSE, <<"IFC2X3">>>>}

\* The types of the wall of a reader file.
WallTypes == {"IfcWall", "IfcWallStandardCase"}

ReaderFiles ==
    {[File(ReaderRecs(x[1], x[2], x[5]), x[3], {}) EXCEPT
         !.is_file = x[4][1], !.schema_identifiers = x[4][2]] :
        x \in {y \in {"ELEMENT", "PARTIAL"} \X (0..MaxProjects)
                     \X SubSeqs(ReaderRelCandidates, MaxRels) \X ReaderHeaders
                     \X WallTypes :
                  \A i \in 1..Len(y[3]) :
                      /\ InFile(ReaderRecs(y[1], y[2], y[5]), y[3][i])
                      /\ WellTyped(ReaderRecs(y[1], y[2], y[5]), y[3][i])}}

\* The type names a user asks for: two with records, one without, and one
\* the provider does not know.
EntityNameArgs == {"IfcSite", "IfcWall", "IfcWindow", "IfcFoo"}

\* The wrappers the user holds: the project of the reader and the entities
\* the last read returned.
Held ==
    {Val(reader).ifc_project}
    \cup (IF result.op \in {"read_entity", "read_sites"} THEN Range(result.val) ELSE {})

\* What the user passes as parent_entity: nothing, something that is no
\* IfcObjectEntity, or a wrapper they hold.
ParentArgs == {NoneArg, StrArg} \cup {ParentArg(w) : w \in Held}

InitReader ==
    /\ file \in ReaderFiles
    /\ Fresh

\* IfcDataReader(filename).
OpenReader ==
    /\ reader = None
    /\ \E o \in {IfcDataReader(Now, file)} :
          /\ heap' = o.m.heap
          /\ loads' = o.m.loads
          /\ first' = o.m.first
          /\ reader' = o.val
          /\ result' = [NoResult EXCEPT !.op = "IfcDataReader", !.exc = o.exc]
    /\ UNCHANGED file

ReadEntity ==
    /\ reader # None
    /\ Len(heap) < MaxHeap
    /\ \E entity_name \in EntityNameArgs :
          \E parent_entity \in ParentArgs :
             Call("read_entity", 0, "", <<entity_name, parent_entity>>,
                  read_entity(Now, file, Val(reader), entity_name, parent_entity))

ReadSites ==
    /\ reader # None
    /\ Len(heap) < MaxHeap
    /\ \E undivided_only \in BOOLEAN :
          Call("read_sites", 0, "", <<undivided_only>>,
               read_sites(Now, file, Val(reader), undivided_only))

ReadWalls ==
    /\ reader # None
    /\ Len(heap) < MaxHeap
    /\ Call("read_walls", 0, "", <<>>, read_walls(Now, file, Val(reader)))

NextReader ==
    \/ OpenReader
    \/ ReadEntity
    \/ ReadSites
    \/ ReadWalls

SpecReader == InitReader /\ [][NextReader]_vars

----------------------------------------------------------------------------
(* Properties of the reader specification.                                 *)

\* The records behind the wrappers ws, as a set.
RawsOf(ws) == {heap[ws[i]].raw : i \in 1..Len(ws)}

\* The composition type of the site record r.
CompositionOf(f, r) == DictGet(get_info(f, r), "CompositionType")

\* C7: read_sites(undivided_only=True) returns normally; every returned
\* entity is an ELEMENT; every ELEMENT site of the file is returned; and
\* for every other site whose parent is an ELEMENT site, that parent is
\* returned.
ReadSitesUndividedReturns ==
    (result.op = "read_sites" /\ result.arg = <<TRUE>>) =>
        /\ result.exc = ""
        /\ \A i \in 1..Len(result.val) : is_element(Now, file, result.val[i])
        /\ \A r \in Range(by_type(file, "IfcSite").val) :
              IF CompositionOf(file, r) = Some("ELEMENT")
              THEN r \in RawsOf(result.val)
              ELSE LET p == _get_relating_object(file, r) IN
                   (/\ ~IsNone(p)
                    /\ is_a(file, Val(p), "IfcSite")
                    /\ CompositionOf(file, Val(p)) = Some("ELEMENT"))
                   => Val(p) \in RawsOf(result.val)

\* C8: read_entity raises ValueError for a name the provider does not
\* recognise, whatever parent_entity is; and for a recognised name without
\* a record in the file, with no parent_entity or a valid one, it returns
\* the empty tuple without error.
UnknownNameRaisesValueError ==
    (result.op = "read_entity") =>
        LET raws == by_type(file, result.arg[1]) IN
        /\ raws.exc # "" => result.exc = "ValueError"
        /\ (raws.exc = "" /\ raws.val = <<>> /\ result.arg[2] # StrArg)
              => (result.exc = "" /\ result.val = <<>>)

\* C8: read_entity was called with a name the provider does not recognise
\* and no parent_entity, and raised ValueError.
UnknownNameWasAsked ==
    /\ result.op = "read_entity"
    /\ by_type(file, result.arg[1]).exc = "RuntimeError"
    /\ result.arg[2] = NoneArg
    /\ result.exc = "ValueError"

\* C9 as stated: opening an existing file succeeds, with ifc_project the
\* wrapper of the IfcProject record, exactly when the file holds one
\* IfcProject record, and raises TypeError and gives no reader otherwise.
ReaderOpensIffOneProject ==
    (result.op = "IfcDataReader" /\ file.is_file) =>
        LET projects == by_type(file, "IfcProject").val IN
        IF Len(projects) = 1
        THEN /\ result.exc = ""
             /\ reader # None
             /\ heap[Val(reader).ifc_project].raw = projects[1]
        ELSE result.exc = "TypeError" /\ reader = None

\* C9, amended: opening an existing file whose schema version is among
\* IFC_SCHEMAS succeeds, with ifc_project the wrapper of the IfcProject
\* record, exactly when the file holds one IfcProject record, and raises
\* TypeError and gives no reader otherwise.
SupportedReaderOpensIffOneProject ==
    (/\ result.op = "IfcDataReader"
     /\ file.is_file
     /\ IfcSchema(schema_version(file)).exc = "") =>
        LET projects == by_type(file, "IfcProject").val IN
        IF Len(projects) = 1
        THEN /\ result.exc = ""
             /\ reader # None
             /\ heap[Val(reader).ifc_project].raw = projects[1]
        ELSE result.exc = "TypeError" /\ reader = None

\* C9: a file of a supported schema version with several IfcProject
\* records was opened, and TypeError was raised.
SeveralProjectsRefused ==
    /\ result.op = "IfcDataReader"
    /\ file.is_file
    /\ IfcSchema(schema_version(file)).exc = ""
    /\ Len(by_type(file, "IfcProject").val) > 1
    /\ result.exc = "TypeError"
    /\ reader = None

RECURSIVE Ascendants(_, _, _)
\* The ascendants of the record r, at most n levels up.
Ascendants(f, r, n) ==
    LET p == _get_relating_object(f, r) IN
    IF n = 0 \/ IsNone(p) THEN {}
    ELSE {Val(p)} \cup Ascendants(f, Val(p), n - 1)

\* C10: read_entity with a recognised name and an IfcObjectEntity as
\* parent_entity raises nothing but ValueError, and when it returns it
\* gives, in provider order, the records of the type that have the
\* parent's record among their ascendants, a record without parent being
\* left out.
ReadEntityUnderParentReturns ==
    (/\ result.op = "read_entity"
     /\ result.arg[2].kind = "IfcObjectEntity"
     /\ by_type(file, result.arg[1]).exc = "") =>
        /\ result.exc \in {"", "ValueError"}
        /\ result.exc = "" =>
              Map(result.val, LAMBDA w : heap[w].raw)
                 = Filter(by_type(file, result.arg[1]).val,
                          LAMBDA r : heap[result.arg[2].w].raw
                                        \in Ascendants(file, r, Len(file.recs)))

----------------------------------------------------------------------------
(* The construction specification: a user builds wrappers from arguments   *)
(* of any kind.                                                            *)

\* The largest number of wrappers a user builds.
MaxEntities == 1

\* The files of the construction specification: every record may be wrapped.
ConstructFiles ==
    {File(NavRecs(t), <<>>, 1..Len(NavRecs(t))) : t \in NavSubjectTypes}

\* What a user passes as raw record.
RawArgs == {NoneArg, StrArg} \cup {RawArg(r) : r \in file.subjects}

\* What a user passes as expected_types.
ExpectedTypesArgs ==
    {NoneArg, StrArg, TupleArg(<<>>), DefaultExpectedTypes,
     TupleArg(<<"IfcSite">>), TupleArg(<<"IfcObject", "IfcSite">>),
     TupleArg(<<"IfcProduct", "IfcElement">>), TupleArg(<<"IfcTypeProduct", "IfcZone">>)}

\* The concrete wrapper classes other than IfcObjectEntity.
MemberClasses ==
    {"IfcObjectEntityPropertySet", "IfcObjectEntityTypePropertySet",
     "IfcObjectEntitySimpleProperty", "IfcObjectEntityTypeProperty",
     "IfcObjectEntitySimpleQuantity"}

InitConstruct ==
    /\ file \in ConstructFiles
    /\ Fresh

\* IfcObjectEntity(raw_obj_entity, schema, expected_types=...).
ConstructEntity ==
    /\ Len(heap) < MaxEntities
    /\ \E raw_obj_entity \in RawArgs :
          \E expected_types \in ExpectedTypesArgs :
             Call("IfcObjectEntity", 0, "", <<raw_obj_entity, expected_types>>,
                  IfcObjectEntity(Now, file, raw_obj_entity, TheSchema, expected_types))

\* cls(raw, schema) for a property-set, property or quantity class; a
\* type-level pseudo-property is built for the attribute Name.
ConstructMember ==
    /\ Len(heap) < MaxEntities
    /\ \E cls \in MemberClasses :
          \E raw \in RawArgs :
             Call(cls, 0, "", <<raw, ExpectedTypesOf(cls)>>,
                  Construct(Now, file, cls, raw, TheSchema, ExpectedTypesOf(cls), None,
                            IF cls = "IfcObjectEntityTypeProperty"
                            THEN Some("Name") ELSE None))

NextConstruct ==
    \/ ConstructEntity
    \/ ConstructMember

SpecConstruct == InitConstruct /\ [][NextConstruct]_vars

\* The wrapper constructors.
Constructors == {"IfcObjectEntity"} \cup MemberClasses

\* C1: a constructor given a raw record and a non-empty tuple of expected
\* types succeeds when the record is of at least one of the types, and
\* raises ValueError when it is of none.
ConstructedWhenOneTypeHolds ==
    (/\ result.op \in Constructors
     /\ result.arg[1].kind = "entity_instance"
     /\ result.arg[2].kind = "tuple"
     /\ result.arg[2].names # <<>>) =>
        IF \E i \in 1..Len(result.arg[2].names) :
              is_a(file, result.arg[1].id, result.arg[2].names[i])
        THEN result.exc = "" /\ ~IsNone(result.val)
        ELSE result.exc = "ValueError"

\* C2: a constructor raises ValueError and produces no wrapper when the raw
\* record is None or no raw record, when expected_types is a string or
\* None, and when expected_types is the empty tuple.
InvalidArgumentsRaiseValueError ==
    (/\ result.op \in Constructors
     /\ \/ result.arg[1].kind # "entity_instance"
        \/ result.arg[2].kind # "tuple"
        \/ result.arg[2] = TupleArg(<<>>)) =>
        result.exc = "ValueError" /\ IsNone(result.val)

----------------------------------------------------------------------------
(* Further properties of the entity specification.                         *)

\* C13: object_type never raises; it returns the wrapper of the
\* RelatingType of the first IfcRelDefinesByType relation among the
\* record's IsDefinedBy, whatever type record that relation references, and
\* None when there is no such relation.
ObjectTypeIsFirstRelatingType ==
    (result.op = "object_type") =>
        LET byType == Filter(IsDefinedBy(file, heap[result.w].raw),
                             LAMBDA rel : TypeIsA(rel.type, "IfcRelDefinesByType")) IN
        /\ result.exc = ""
        /\ IF byType = <<>> THEN IsNone(result.val)
           ELSE ~IsNone(result.val) /\ heap[Val(result.val)].raw = byType[1].relating

----------------------------------------------------------------------------
(* Equality of wrappers.                                                   *)

\* IfcBaseEntity.__eq__(self, other): wrappers of the same class are equal
\* when their global ids are (None included).
BaseEq(m, f, self, other) ==
    IF m.heap[other].cls = m.heap[self].cls
    THEN global_id(m, f, self) = global_id(m, f, other)
    ELSE FALSE

\* self == other for two wrappers: IfcObjectEntityPropertyBase.__eq__ for
\* properties (by global id when both have one, else by name and owning
\* property set, the sets compared by IfcBaseEntity.__eq__), and
\* IfcBaseEntity.__eq__ for every other class.
__eq__(m, f, self, other) ==
    IF m.heap[self].cls \in {"IfcObjectEntitySimpleProperty", "IfcObjectEntityTypeProperty"}
    THEN IF ~IsNone(global_id(m, f, self)) /\ ~IsNone(global_id(m, f, other))
         THEN BaseEq(m, f, self, other)
         ELSE /\ name(m, f, self) = name(m, f, other)
              /\ LET a == m.heap[self].property_set
                     b == m.heap[other].property_set
                 IN IF IsNone(a) \/ IsNone(b) THEN a = b
                    ELSE BaseEq(m, f, Val(a), Val(b))
    ELSE BaseEq(m, f, self, other)

----------------------------------------------------------------------------
(* The family specification: a user wraps the subject record of a file and *)
(* reads parent and kids on it and on the wrappers these accessors return. *)

\* The heap size from which the user reads no further parent or kids.
MaxFamily == 3

\* The relations a family file draws from, in file order: those of the
\* navigation files, and an aggregation whose parts are a type object and a
\* wall.
FamilyRelCandidates ==
    NavRelCandidates \o << Rel("IfcRelAggregates", 2, <<5, 3>>) >>

\* The family files: the user wraps the subject, record 2.
FamilyFiles ==
    {File(NavRecs(x[1]), x[2], {2}) :
        x \in {y \in NavSubjectTypes \X SubSeqs(FamilyRelCandidates, MaxRels) :
                  \A i \in 1..Len(y[2]) : WellTyped(NavRecs(y[1]), y[2][i])}}

\* The wrappers of class IfcObjectEntity on the heap.
Objects == {w \in 1..Len(heap) : heap[w].cls = "IfcObjectEntity"}

InitFamily ==
    /\ file \in FamilyFiles
    /\ Fresh

\* parent on any entity the user holds.
ParentOf ==
    /\ Len(heap) < MaxFamily
    /\ \E w \in Objects : Call("parent", w, "_parent", <<>>, parent(Now, file, w))

\* kids on any entity the user holds.
KidsOf ==
    /\ Len(heap) < MaxFamily
    /\ \E w \in Objects : Call("kids", w, "_kids", <<>>, kids(Now, file, w))

NextFamily ==
    \/ NewEntity
    \/ ParentOf
    \/ KidsOf

SpecFamily == InitFamily /\ [][NextFamily]_vars

\* K in E.kids, for the value kids returned on E.
AmongKids(K, kidsOfE) ==
    /\ ~IsNone(kidsOfE)
    /\ \E i \in 1..Len(Val(kidsOfE)) : __eq__(Now, file, Val(kidsOfE)[i], K)

\* C11: for any two entities K and E whose parent and kids were read, K is
\* among E.kids if and only if K.parent equals E.
ParentAndKidsAgree ==
    \A K \in Objects : \A E \in Objects :
        (~IsNone(first[K]["_parent"]) /\ ~IsNone(first[E]["_kids"])) =>
            LET parentOfK == Val(first[K]["_parent"])
                kidsOfE == Val(first[E]["_kids"])
            IN AmongKids(K, kidsOfE)
                  <=> (~IsNone(parentOfK) /\ __eq__(Now, file, Val(parentOfK), E))

\* C12: kids never raises; for a record that is an IfcObjectDefinition it
\* returns the wrappers of the RelatedObjects of its IsGroupedBy relations
\* (an IfcZone) or of its IsDecomposedBy relations (any other record), in
\* relation order and with duplicates, the empty tuple when there is no
\* such relation; for any other record it returns None.
KidsAreRelatedObjects ==
    (result.op = "kids") =>
        LET r == heap[result.w].raw
            rels == IF is_a(file, r, "IfcZone")
                    THEN RelsRelating(file, r, "IfcRelAssignsToGroup")
                    ELSE RelsRelating(file, r, "IfcRelDecomposes")
        IN /\ result.exc = ""
           /\ IF is_a(file, r, "IfcObjectDefinition")
              THEN /\ ~IsNone(result.val)
                   /\ Map(Val(result.val), LAMBDA k : heap[k].raw)
                         = Flatten(Map(rels, LAMBDA rel : rel.related))
              ELSE IsNone(result.val)

----------------------------------------------------------------------------
(* Further properties of the property specification.                       *)

\* C18: when get_properties(pset_codename=c) and get_property_set(c) both
\* return, the former gives exactly the properties of the set the latter
\* gives, and the empty tuple when the latter gives None - also when
\* several property sets of the entity share the codename c.
PropertiesOfTheNamedSet ==
    (result.op = "get_properties" /\ ~IsNone(result.arg[1]) /\ result.exc = "") =>
        LET s == get_property_set(Now, file, result.w, Val(result.arg[1])) IN
        s.exc = "" =>
            IF IsNone(s.val) THEN result.val = <<>>
            ELSE LET ps == properties(s.m, file, Val(s.val)) IN
                 ps.exc = "" /\ result.val = Val(ps.val)

----------------------------------------------------------------------------
(* The member specification: a user wraps an element defined by a property *)
(* set and an element quantity whose member lists mix simple and complex   *)
(* members, reads the sets, their properties and the quantities, and       *)
(* compares the wrappers.                                                  *)

\* The member lists (HasProperties) of the property set of a member file.
PropertyLists == {<<4>>, <<4, 6>>, <<5, 4>>, <<4, 5, 6>>}

\* The member lists (Quantities) of the element quantity of a member file.
QuantityLists == {<<7>>, <<7, 9>>, <<8, 7>>, <<7, 8, 9>>}

\* The records of a member file: a wall, a property set with the members
\* props, an element quantity with the members qtys, two single-valued
\* properties named NameA and pn and a complex property, two simple
\* quantities and a complex one, and a wall type.
MemberRecs(props, qtys, pn) ==
    << RootRec("IfcWall", "g1", Some(NameA), <<>>),
       RootRec("IfcPropertySet", "g2", Some(NameA), << <<"HasProperties", Some(props)>> >>),
       RootRec("IfcElementQuantity", "g3", Some(NameB),
               << <<"MethodOfMeasurement", None>>, <<"Quantities", Some(qtys)>> >>),
       LeafRec("IfcPropertySingleValue", Some(NameA), MemberAttrs("IfcPropertySingleValue")),
       LeafRec("IfcComplexProperty", Some(NameB), MemberAttrs("IfcComplexProperty")),
       LeafRec("IfcPropertySingleValue", Some(pn), MemberAttrs("IfcPropertySingleValue")),
       LeafRec("IfcQuantityLength", Some(NameA), MemberAttrs("IfcQuantityLength")),
       LeafRec("IfcPhysicalComplexQuantity", Some(NameB),
               MemberAttrs("IfcPhysicalComplexQuantity")),
       LeafRec("IfcQuantityArea", Some(NameB),
               << <<"AreaValue", Some(7)>>, <<"Unit", None>> >>),
       RootRec("IfcWallType", "g4", None, << <<"HasPropertySets", None>> >>) >>

\* The relations a member file draws from, in file order.
MemberRelCandidates ==
    << Rel("IfcRelDefinesByProperties", 2, <<1>>),
       Rel("IfcRelDefinesByType", 10, <<1>>),
       Rel("IfcRelDefinesByProperties", 3, <<1>>) >>

\* The member files: the user wraps the wall, record 1.
MemberFiles ==
    {File(MemberRecs(x[1], x[2], x[3]), x[4], {1}) :
        x \in PropertyLists \X QuantityLists \X {NameA, NameB}
                 \X SubSeqs(MemberRelCandidates, MaxRels)}

InitMembers ==
    /\ file \in MemberFiles
    /\ Fresh

\* properties on a property set the user holds.
AccessProperties ==
    \E w \in PropertySets :
        Call("properties", w, "_properties", <<>>, properties(Now, file, w))

\* get_property_codenames() on a property set the user holds.
GetPropertyCodenames ==
    \E w \in PropertySets :
        Call("get_property_codenames", w, "", <<>>, get_property_codenames(Now, file, w))

\* self == other on two property-set, property or quantity wrappers.
Equal ==
    \E self \in PropertySets \cup Valued :
        \E other \in PropertySets \cup Valued :
            Call("__eq__", self, "", <<other>>,
                 Out(Now, "", __eq__(Now, file, self, other)))

NextMembers ==
    \/ NewEntity
    \/ AccessPropertySets
    \/ AccessQuantities
    \/ AccessProperties
    \/ GetPropertyCodenames
    \/ Equal

SpecMembers == InitMembers /\ [][NextMembers]_vars

\* The records behind the wrappers ws, in order.
RawSeq(ws) == Map(ws, LAMBDA w : heap[w].raw)

\* The targets of the IfcRelDefinesByProperties relations that define the
\* record r, in relation order.
PropertyTargets(f, r) ==
    Map(Filter(f.rels, LAMBDA x : x.type = "IfcRelDefinesByProperties"
                                     /\ r \in Range(x.related)),
        LAMBDA x : x.relating)

\* The members of the IfcElementQuantity targets of r, in relation order,
\* then member order.
QuantityMembers(f, r) ==
    Flatten(Map(Filter(PropertyTargets(f, r),
                       LAMBDA t : f.recs[t].type = "IfcElementQuantity"),
                LAMBDA t : Val(f.recs[t].attrs["Quantities"])))

\* The targets of r that are no IfcElementQuantity, in relation order.
PropertySetTargets(f, r) ==
    Filter(PropertyTargets(f, r), LAMBDA t : f.recs[t].type # "IfcElementQuantity")

\* C14 as stated: property_sets wraps exactly the targets that are no
\* IfcElementQuantity, in relation order, and quantities holds exactly the
\* members of the targets that are IfcElementQuantity, in relation order
\* then member order; neither raises, and relations of another kind
\* contribute to neither.
TargetsUsedByOneResolution ==
    /\ (result.op = "property_sets") =>
          /\ result.exc = ""
          /\ RawSeq(IF IsNone(result.val) THEN <<>> ELSE Val(result.val))
                = PropertySetTargets(file, heap[result.w].raw)
    /\ (result.op = "quantities") =>
          /\ result.exc = ""
          /\ ~IsNone(result.val)
          /\ RawSeq(Val(result.val)) = QuantityMembers(file, heap[result.w].raw)

\* C14, amended: property_sets wraps exactly the targets that are no
\* IfcElementQuantity, in relation order, and quantities holds exactly the
\* IfcPhysicalSimpleQuantity members of the targets that are
\* IfcElementQuantity, in relation order then member order; neither raises,
\* and relations of another kind contribute to neither.
TargetsUsedByOneResolutionSimple ==
    /\ (result.op = "property_sets") =>
          /\ result.exc = ""
          /\ RawSeq(IF IsNone(result.val) THEN <<>> ELSE Val(result.val))
                = PropertySetTargets(file, heap[result.w].raw)
    /\ (result.op = "quantities") =>
          /\ result.exc = ""
          /\ ~IsNone(result.val)
          /\ RawSeq(Val(result.val))
                = Filter(QuantityMembers(file, heap[result.w].raw),
                         LAMBDA q : is_a(file, q, "IfcPhysicalSimpleQuantity"))

\* C14: quantities was read, after property_sets, on an entity defined by a
\* property set and by an element quantity with a complex member; it
\* returned the two simple members only.
QuantitiesOfMixedDefinitions ==
    /\ result.op = "quantities"
    /\ result.exc = ""
    /\ PropertySetTargets(file, heap[result.w].raw) # <<>>
    /\ \E q \in Range(QuantityMembers(file, heap[result.w].raw)) :
          ~is_a(file, q, "IfcPhysicalSimpleQuantity")
    /\ Len(Val(result.val)) = 2
    /\ ~IsNone(heap[result.w]._property_sets)

\* C15: loading the properties of a property set, or the quantities of an
\* entity, never raises when the member lists mix recognised and
\* unrecognised members: the result holds one wrapper per IfcSimpleProperty
\* (IfcPhysicalSimpleQuantity) member, in member order, and nothing for any
\* other member.
UnrecognisedMembersAreDropped ==
    /\ (result.op = "properties" /\ heap[result.w].cls = "IfcObjectEntityPropertySet") =>
          /\ result.exc = ""
          /\ RawSeq(Val(result.val))
                = Filter(Val(file.recs[heap[result.w].raw].attrs["HasProperties"]),
                         LAMBDA p : is_a(file, p, "IfcSimpleProperty"))
    /\ (result.op = "quantities") =>
          /\ result.exc = ""
          /\ RawSeq(Val(result.val))
                = Filter(QuantityMembers(file, heap[result.w].raw),
                         LAMBDA q : is_a(file, q, "IfcPhysicalSimpleQuantity"))

\* C15: the properties of a set whose member list holds a complex property
\* between two simple ones were loaded, and two wrappers were returned.
MixedPropertiesLoaded ==
    /\ result.op = "properties"
    /\ result.exc = ""
    /\ Val(file.recs[heap[result.w].raw].attrs["HasProperties"]) = <<4, 5, 6>>
    /\ RawSeq(Val(result.val)) = <<4, 6>>

\* The codename the claim derives from the name of the record p.
MemberCodename(f, p) == codename(DictGet(get_info(f, p), "Name")).val

\* C16 as stated: get_property_codenames() of the wrapper of an
\* IfcPropertySet returns, in member order, the codename of every member of
\* HasProperties, so as many codenames as HasProperties has members.
OneCodenamePerMember ==
    (result.op = "get_property_codenames"
     /\ heap[result.w].cls = "IfcObjectEntityPropertySet") =>
        LET members == Val(file.recs[heap[result.w].raw].attrs["HasProperties"]) IN
        /\ result.exc = ""
        /\ Len(result.val) = Len(members)
        /\ result.val = Map(members, LAMBDA p : MemberCodename(file, p))

\* C16, amended: get_property_codenames() of the wrapper of an
\* IfcPropertySet returns, in member order, the codename of every
\* IfcSimpleProperty member of HasProperties, so as many codenames as
\* HasProperties has such members, and the set has one property per such
\* member.
OneCodenamePerSimpleMember ==
    (result.op = "get_property_codenames"
     /\ heap[result.w].cls = "IfcObjectEntityPropertySet") =>
        LET members == Filter(Val(file.recs[heap[result.w].raw].attrs["HasProperties"]),
                              LAMBDA p : is_a(file, p, "IfcSimpleProperty")) IN
        /\ result.exc = ""
        /\ Len(result.val) = Len(members)
        /\ result.val = Map(members, LAMBDA p : MemberCodename(file, p))
        /\ RawSeq(Val(heap[result.w]._properties)) = members

\* C16: the codenames of a set with a complex member and two simple ones
\* of different names were read.
CodenamesOfMixedSet ==
    /\ result.op = "get_property_codenames"
    /\ result.exc = ""
    /\ Val(file.recs[heap[result.w].raw].attrs["HasProperties"]) = <<4, 5, 6>>
    /\ Len(result.val) = 2
    /\ result.val[1] # result.val[2]

\* C17: self == other on two property, two property-set or two quantity
\* wrappers is the equality of their global ids when both have one, and
\* otherwise the equality of their names and of their owning sets.
EqualByIdElseByNameAndSet ==
    (result.op = "__eq__" /\ heap[result.w].cls = heap[result.arg[1]].cls) =>
        LET a == result.w
            b == result.arg[1]
            ida == global_id(Now, file, a)
            idb == global_id(Now, file, b)
            seta == heap[a].property_set
            setb == heap[b].property_set
        IN result.val =
              IF ~IsNone(ida) /\ ~IsNone(idb) THEN ida = idb
              ELSE /\ name(Now, file, a) = name(Now, file, b)
                   /\ IF IsNone(seta) \/ IsNone(setb) THEN seta = setb
                      ELSE global_id(Now, file, Val(seta)) = global_id(Now, file, Val(setb))

----------------------------------------------------------------------------
(* The identity specification: a user builds IfcObjectEntity wrappers with *)
(* or without a registry and reads the accessors of IfcBaseEntity.         *)

\* IfcBaseEntity.description.
description(m, f, w) == DictGet(get_info(f, m.heap[w].raw), "Description")

\* IfcBaseEntity.schema_version of the wrapper w: the version of its
\* registry, None without a registry.
wrapper_schema_version(m, w) ==
    IF ~IsNone(m.heap[w].schema) THEN m.heap[w].schema ELSE None

\* IfcSchema.get_entity(entity_name): the entity of that name, KeyError for
\* a name the registry does not declare.
get_entity(entity_name) ==
    IF IsNone(entity_name)
       \/ (Val(entity_name) # "IfcRoot" /\ Supertype(Val(entity_name)) = "")
    THEN [exc |-> "KeyError", val |-> None]
    ELSE [exc |-> "", val |-> entity_name]

\* IfcBaseEntity.schema_metadata of the wrapper w: None has no get_entity,
\* which raises AttributeError.
schema_metadata(m, f, w) ==
    IF IsNone(m.heap[w].schema) THEN [exc |-> "AttributeError", val |-> None]
    ELSE get_entity(type_name(m, f, w))

\* The records of an identity file: a wall, a zone and a wall type that
\* share a display name and a description.
IdentityRecs(nm, desc) ==
    << RootRec("IfcWall", "g1", nm, << <<"Description", desc>> >>),
       RootRec("IfcZone", "g2", nm, << <<"Description", desc>> >>),
       RootRec("IfcWallType", "g3", nm,
               << <<"Description", desc>>, <<"HasPropertySets", None>> >>) >>

IdentityFiles ==
    {File(IdentityRecs(nm, desc), <<>>, 1..3) :
        nm \in OptionalNames, desc \in {None, Some(NameB)}}

\* What a user passes as schema.
SchemaArgs == {None, TheSchema}

InitIdentity ==
    /\ file \in IdentityFiles
    /\ Fresh

\* IfcObjectEntity(raw_obj_entity, schema).
ConstructWithSchema ==
    /\ Len(heap) < MaxEntities
    /\ \E r \in file.subjects :
          \E schema \in SchemaArgs :
             Call("IfcObjectEntity", 0, "", <<RawArg(r), schema>>,
                  IfcObjectEntity(Now, file, RawArg(r), schema, DefaultExpectedTypes))

\* A property that reads the record and leaves the wrapper alone.
Read(op, w, exc, val) == Call(op, w, "", <<>>, Out(Now, exc, val))

AccessTypeName ==
    \E w \in 1..Len(heap) : Read("type_name", w, "", type_name(Now, file, w))

AccessGlobalId ==
    \E w \in 1..Len(heap) : Read("global_id", w, "", global_id(Now, file, w))

AccessName ==
    \E w \in 1..Len(heap) : Read("name", w, "", name(Now, file, w))

AccessDescription ==
    \E w \in 1..Len(heap) : Read("description", w, "", description(Now, file, w))

\* entity.codename: the cleaned name, recorded as Some(chars).
AccessCodename ==
    \E w \in 1..Len(heap) :
       Read("codename", w, codename(name(Now, file, w)).exc,
            IF codename(name(Now, file, w)).exc = ""
            THEN Some(codename(name(Now, file, w)).val) ELSE None)

AccessSchemaVersion ==
    \E w \in 1..Len(heap) :
       Read("schema_version", w, "", wrapper_schema_version(Now, w))

AccessSchemaMetadata ==
    \E w \in 1..Len(heap) :
       Read("schema_metadata", w, schema_metadata(Now, file, w).exc,
            schema_metadata(Now, file, w).val)

NextIdentity ==
    \/ ConstructWithSchema
    \/ AccessTypeName
    \/ AccessGlobalId
    \/ AccessName
    \/ AccessDescription
    \/ AccessCodename
    \/ AccessSchemaVersion
    \/ AccessSchemaMetadata

SpecIdentity == InitIdentity /\ [][NextIdentity]_vars

\* The codename the test of IfcBaseEntity expects for a display name: the
\* name lower-cased, its punctuation characters removed, then each space
\* replaced by an underscore.
UnderscoredCodename(s) ==
    Map(StripChars(lower(s), Punctuation), LAMBDA c : IF c = " " THEN "_" ELSE c)

\* C19: for every wrapper that has a display name, codename is the name
\* lower-cased, with the punctuation characters removed and each internal
\* space turned into an underscore.
CodenameIsUnderscoredName ==
    (/\ result.op = "codename"
     /\ ~IsNone(name(Now, file, result.w))) =>
        /\ result.exc = ""
        /\ result.val = Some(UnderscoredCodename(Val(name(Now, file, result.w))))

\* The accessors of IfcBaseEntity that read the record alone.
IdentityAccessors == {"type_name", "global_id", "name", "description", "codename"}

\* C20: the construction of a wrapper with no registry succeeds on a record
\* of an expected type; on such a wrapper the identity accessors return,
\* schema_version is None, and schema_metadata raises AttributeError on
\* every access, so that no accessor but schema_metadata raises.
WrapperWithoutRegistryWorks ==
    /\ (/\ result.op = "IfcObjectEntity"
        /\ IsNone(result.arg[2])
        /\ is_a(file, result.arg[1].id, "IfcObject")) =>
           /\ result.exc = ""
           /\ IsNone(heap[Val(result.val)].schema)
    /\ (/\ result.w # 0
        /\ IsNone(heap[result.w].schema)) =>
           /\ result.op \in IdentityAccessors => result.exc = ""
           /\ result.op = "schema_version" =>
                 result.exc = "" /\ IsNone(result.val)
           /\ result.op = "schema_metadata" => result.exc = "AttributeError"

----------------------------------------------------------------------------
(* Further properties of the reader specification.                         *)

\* C30: read_walls returns every IfcWall and IfcWallStandardCase record of
\* the file exactly once: the records behind the returned wrappers are the
\* wall records of the file, and no record is behind two of them.
ReadWallsReturnsEachWallOnce ==
    (result.op = "read_walls" /\ result.exc = "") =>
        /\ RawsOf(result.val) = Range(by_type(file, "IfcWall").val)
        /\ \A i, j \in 1..Len(result.val) :
              heap[result.val[i]].raw = heap[result.val[j]].raw => i = j

----------------------------------------------------------------------------
(* str operations, as the schema reader uses them.  TAB and NL stand for   *)
(* the tab and the newline character.                                      *)

\* The characters of the grammar texts, in ascending code-point order.
CodePoints ==
    <<"TAB", "NL", " ", "#", "(", ")", ",", ".",
      "0", "1", "2", "3", "4", "5", "6", "7", "8", "9", ":", ";", "=", ">", "?",
      "A", "B", "C", "D", "E", "F", "G", "H", "I", "J", "K", "L", "M",
      "N", "O", "P", "Q", "R", "S", "T", "U", "V", "W", "X", "Y", "Z", "[", "]", "_",
      "a", "b", "c", "d", "e", "f", "g", "h", "i", "j", "k", "l", "m",
      "n", "o", "p", "q", "r", "s", "t", "u", "v", "w", "x", "y", "z", "|">>

\* ord(c).
Ord(c) == CHOOSE i \in 1..Len(CodePoints) : CodePoints[i] = c

\* a < b on str: the lexicographic order by code point; the strings are
\* compared at the first index where they differ, and a proper prefix is
\* less than the string it starts.
StrLess(a, b) ==
    Let({i \in 1..Len(a) : i <= Len(b) /\ a[i] # b[i]}, LAMBDA differ :
        IF differ = {} THEN Len(a) < Len(b)
        ELSE Let(CHOOSE i \in differ : \A j \in differ : i <= j, LAMBDA i :
                 Ord(a[i]) < Ord(b[i])))

\* The first of the largest strings of the sequence ss.
LongestOf(ss) ==
    ss[CHOOSE i \in 1..Len(ss) :
          /\ \A j \in 1..Len(ss) : Len(ss[j]) <= Len(ss[i])
          /\ \A j \in 1..(i - 1) : Len(ss[j]) < Len(ss[i])]

\* min(ss) on a non-empty list of str: the first item no other item is
\* less than.
min(ss) ==
    ss[CHOOSE i \in 1..Len(ss) :
          /\ \A j \in 1..Len(ss) : ~StrLess(ss[j], ss[i])
          /\ \A j \in 1..(i - 1) : StrLess(ss[i], ss[j])]

RECURSIVE sorted(_)
\* sorted(ss) on a list of str: ascending, the repeated items kept.
sorted(ss) ==
    IF ss = <<>> THEN <<>>
    ELSE Let(CHOOSE i \in 1..Len(ss) : \A j \in 1..Len(ss) : ~StrLess(ss[j], ss[i]),
             LAMBDA i : <<ss[i]>> \o sorted(SubSeq(ss, 1, i - 1) \o SubSeq(ss, i + 1, Len(ss))))

\* s.startswith(prefix).
startswith(s, prefix) ==
    Len(prefix) <= Len(s) /\ SubSeq(s, 1, Len(prefix)) = prefix

\* s.find(sub) from the index start on: the index of the first occurrence,
\* 0 when there is none (indexes start at 1).
find(s, sub, start) ==
    Let({i \in start..(Len(s) - Len(sub) + 1) : SubSeq(s, i, i + Len(sub) - 1) = sub},
        LAMBDA at : IF at = {} THEN 0 ELSE CHOOSE i \in at : \A j \in at : i <= j)

\* s.partition(sep): what is before the first sep, sep, and what is after;
\* s and two empty strings without sep in s.
partition(s, sep) ==
    Let(find(s, sep, 1), LAMBDA i :
        IF i = 0 THEN <<s, <<>>, <<>>>>
        ELSE <<SubSeq(s, 1, i - 1), sep, SubSeq(s, i + Len(sep), Len(s))>>)

RECURSIVE replace(_, _, _)
\* s.replace(old, new), old not empty.
replace(s, old, new) ==
    Let(find(s, old, 1), LAMBDA i :
        IF i = 0 THEN s
        ELSE SubSeq(s, 1, i - 1) \o new
                \o replace(SubSeq(s, i + Len(old), Len(s)), old, new))

RECURSIVE split(_, _)
\* s.split(sep), sep not empty.
split(s, sep) ==
    Let(find(s, sep, 1), LAMBDA i :
        IF i = 0 THEN <<s>>
        ELSE <<SubSeq(s, 1, i - 1)>> \o split(SubSeq(s, i + Len(sep), Len(s)), sep))

----------------------------------------------------------------------------
(* The schema objects (schema/ifc_schema_objects.py).  A dict is the       *)
(* sequence of its values in insertion order, each holding its key as      *)
(* name.  A schema is [defined_types, select_types, enumerations,          *)
(* entities], the four dicts of IfcSchema.                                 *)

\* The values of the dict d whose key is key (at most one).
Lookup(d, key) == Filter(d, LAMBDA x : x.name = key)

\* d[key] = val, val holding key as name.
DictPut(d, val) ==
    IF Lookup(d, val.name) = <<>> THEN Append(d, val)
    ELSE Map(d, LAMBDA x : IF x.name = val.name THEN val ELSE x)

\* d[key]: KeyError without the key.
DictItem(d, key) ==
    IF Lookup(d, key) = <<>> THEN [exc |-> "KeyError", val |-> None]
    ELSE [exc |-> "", val |-> Some(Lookup(d, key)[1])]

\* IfcSchema.get_defined_type(defined_type_name).
get_defined_type(schema, defined_type_name) ==
    DictItem(schema.defined_types, defined_type_name)

\* IfcSchemaDefinedType._SIMPLE_TYPES.
_SIMPLE_TYPES ==
    {<<"I", "N", "T", "E", "G", "E", "R">>, <<"R", "E", "A", "L">>, <<"S", "T", "R", "I", "N",
          "G">>, <<"N", "U", "M", "B", "E", "R">>, <<"L", "O", "G", "I", "C", "A", "L">>, <<"B",
          "O", "O", "L", "E", "A", "N">>}

RECURSIVE re_split(_)
\* re.split(' |\) |\(', s): the pieces of s between the separators, a
\* space, a closing parenthesis followed by a space, an opening parenthesis.
re_split(s) ==
    Let({i \in 1..Len(s) :
            \/ s[i] \in {" ", "("}
            \/ s[i] = ")" /\ i < Len(s) /\ s[i + 1] = " "},
        LAMBDA at :
            IF at = {} THEN <<s>>
            ELSE Let(CHOOSE i \in at : \A j \in at : i <= j, LAMBDA i :
                     <<SubSeq(s, 1, i - 1)>>
                        \o re_split(SubSeq(s, i + (IF s[i] = ")" THEN 2 ELSE 1), Len(s)))))

\* IfcSchemaDefinedType.type_name that prefixes every expression but a
\* bare simple type name.
TypeNameOfBareSimpleTypes(raw_value) ==
    IF raw_value \notin _SIMPLE_TYPES THEN <<"#">> \o raw_value ELSE raw_value

\* IfcSchemaDefinedType.type_name of a defined type of raw value raw_value.
DefinedType_type_name(raw_value) ==
    IF Range(re_split(raw_value)) \cap _SIMPLE_TYPES = {}
    THEN <<"#">> \o raw_value
    ELSE raw_value

\* IfcSchemaDefinedType.is_ref.
DefinedType_is_ref(raw_value) == startswith(DefinedType_type_name(raw_value), <<"#">>)

\* IfcSchemaDefinedType.ref_type: the outcome [exc, val].
DefinedType_ref_type(schema, raw_value) ==
    IF DefinedType_is_ref(raw_value) THEN get_defined_type(schema, raw_value)
    ELSE [exc |-> "", val |-> None]

\* IfcSchemaSelectType.entity_names and IfcSchemaEnum.values of a raw list.
SortedItems(raw) == sorted(split(replace(raw, <<"NL", "TAB">>, <<>>), <<",">>))

\* The character classes of the regular expressions.
Letters == Range(UpperCase) \cup Range(LowerCase)

Digits == {"0", "1", "2", "3", "4", "5", "6", "7", "8", "9"}

Whitespace == {" ", "TAB", "NL"}

\* Whether the literal lit is in s at the index k.
HasAt(s, k, lit) ==
    k + Len(lit) - 1 <= Len(s) /\ SubSeq(s, k, k + Len(lit) - 1) = lit

\* Whether a whitespace character is in s at the index k.
IsWs(s, k) == k <= Len(s) /\ s[k] \in Whitespace

\* The index after the longest run of characters of cs that starts at k.
RunEnd(s, k, cs) ==
    CHOOSE e \in k..(Len(s) + 1) :
       /\ \A j \in k..(e - 1) : s[j] \in cs
       /\ e = Len(s) + 1 \/ s[e] \notin cs

\* Whether $ matches in s at the index k: at the end, or before a final
\* newline.
AtEnd(s, k) == k = Len(s) + 1 \/ (k = Len(s) /\ s[k] = "NL")

\* (Ifc[a-zA-Z]+)(?:\sFOR (.*))?$ matched at the index k, the first two
\* groups being lo and hi: the four groups, or None.
TypeMatch(s, k, lo, hi) ==
    IF ~HasAt(s, k, <<"I", "f", "c">>) THEN None
    ELSE Let(RunEnd(s, k + 3, Letters), LAMBDA e :
             IF e = k + 3 THEN None
             ELSE IF /\ IsWs(s, e)
                     /\ HasAt(s, e + 1, <<"F", "O", "R", " ">>)
                     /\ AtEnd(s, RunEnd(s, e + 5, Range(CodePoints) \ {"NL"}))
             THEN Some(<<lo, hi, Some(SubSeq(s, k, e - 1)),
                         Some(SubSeq(s, e + 5,
                                     RunEnd(s, e + 5, Range(CodePoints) \ {"NL"}) - 1))>>)
             ELSE IF AtEnd(s, e) THEN Some(<<lo, hi, Some(SubSeq(s, k, e - 1)), None>>)
             ELSE None)

\* (?:\sOF\s)? and what follows it, matched at the index k.
OfThenType(s, k, lo, hi) ==
    IF /\ IsWs(s, k)
       /\ HasAt(s, k + 1, <<"O", "F">>)
       /\ IsWs(s, k + 3)
       /\ ~IsNone(TypeMatch(s, k + 4, lo, hi))
    THEN TypeMatch(s, k + 4, lo, hi)
    ELSE TypeMatch(s, k, lo, hi)

\* \[([0-9]+):([\?0-9]+)\] matched at the index k: the two groups and the
\* index after the bracket, or None.
Bounds(s, k) ==
    IF ~HasAt(s, k, <<"[">>) THEN None
    ELSE Let(RunEnd(s, k + 1, Digits), LAMBDA a :
             IF a = k + 1 \/ ~HasAt(s, a, <<":">>) THEN None
             ELSE Let(RunEnd(s, a + 1, Digits \cup {"?"}), LAMBDA b :
                      IF b = a + 1 \/ ~HasAt(s, b, <<"]">>) THEN None
                      ELSE Some(<<SubSeq(s, k + 1, a - 1), SubSeq(s, a + 1, b - 1), b + 1>>)))

\* The regular expression of _extract_raw_type matched at the index p: with
\* the collection prefix and its bounds, with the prefix alone, or without.
MatchAt(s, p) ==
    Let(IF HasAt(s, p, <<"S", "E", "T">>) THEN p + 3
        ELSE IF HasAt(s, p, <<"L", "I", "S", "T">>) THEN p + 4 ELSE 0, LAMBDA q :
        IF q = 0 \/ ~IsWs(s, q) THEN TypeMatch(s, p, None, None)
        ELSE Let(Bounds(s, q + 1), LAMBDA b :
                 Let(IF IsNone(b) THEN None
                     ELSE OfThenType(s, b[1][3], Some(b[1][1]), Some(b[1][2])),
                     LAMBDA bounded :
                     IF ~IsNone(bounded) THEN bounded
                     ELSE Let(OfThenType(s, q + 1, None, None), LAMBDA unbounded :
                              IF ~IsNone(unbounded) THEN unbounded
                              ELSE TypeMatch(s, p, None, None)))))

\* re.search of _extract_raw_type on the raw type: the groups of the first
\* match from the left, or None.
_extract_raw_type(raw_type) ==
    Let({p \in 1..(Len(raw_type) + 1) : ~IsNone(MatchAt(raw_type, p))}, LAMBDA at :
        IF at = {} THEN None
        ELSE MatchAt(raw_type, CHOOSE p \in at : \A r \in at : p <= r))

\* IfcSchemaEntityAttribute.is_optional.
is_optional(raw_type) == startswith(raw_type, <<"O", "P", "T", "I", "O", "N", "A", "L">>)

\* IfcSchemaEntityAttribute(attr_name, attr_raw_type, entity) and, with
\* inverse, IfcSchemaEntityInverse: the fields after __init__.
IfcSchemaEntityAttribute(attr_name, attr_raw_type, entity, inverse) ==
    Let(_extract_raw_type(attr_raw_type), LAMBDA meta :
        [name |-> attr_name,
         entity |-> entity,
         _raw_type |-> attr_raw_type,
         is_optional |-> is_optional(attr_raw_type),
         is_set_of |-> ~IsNone(meta) /\ (~IsNone(meta[1][1]) \/ ~IsNone(meta[1][2])),
         set_of_min |-> IF IsNone(meta) THEN None ELSE meta[1][1],
         set_of_max |-> IF IsNone(meta) THEN None ELSE meta[1][2],
         ifc_type_name |->
            IF ~IsNone(meta) THEN Val(meta[1][3])
            ELSE IF is_optional(attr_raw_type)
            THEN replace(attr_raw_type, <<"O", "P", "T", "I", "O", "N", "A", "L", " ">>, <<>>)
            ELSE attr_raw_type,
         for_attr |-> IF inverse /\ ~IsNone(meta) THEN meta[1][4] ELSE None])

\* IfcSchemaEntity._NO_ATTR.
_NO_ATTR ==
    <<<<"W", "H", "E", "R", "E">>, <<"I", "N", "V", "E", "R", "S", "E">>, <<"W", "R", "2">>,
          <<"W", "R", "3">>, <<"W", "R", "4">>, <<"W", "R", "5">>, <<"U", "N", "I", "Q", "U",
          "E">>, <<"D", "E", "R", "I", "V", "E">>>>

\* The group of re.search('.*SUBTYPE OF \((.*?)\);') on one line, or None:
\* the greedy prefix takes the last SUBTYPE OF of the line that a closing
\* parenthesis and a semicolon follow.
SubtypeOfLine(line) ==
    Let({i \in 1..Len(line) :
            HasAt(line, i, <<"S", "U", "B", "T", "Y", "P", "E", " ", "O", "F", " ",
                  "(">>) /\ find(line, <<")", ";">>, i + 12) # 0},
        LAMBDA at :
            IF at = {} THEN None
            ELSE Let(CHOOSE i \in at : \A j \in at : j <= i, LAMBDA i :
                     Some(SubSeq(line, i + 12, find(line, <<")", ";">>, i + 12) - 1))))

\* The supertype name _extract_raw_data reads: the group on the first line
\* that matches, None without such a line.
supertype_name(raw_data) ==
    Let(Filter(Map(split(raw_data, <<"NL">>), SubtypeOfLine), LAMBDA g : ~IsNone(g)),
        LAMBDA groups : IF groups = <<>> THEN None ELSE groups[1])

\* The group of re.search(';(.*?)$', raw_data, re.DOTALL): what follows the
\* first semicolon, a final newline left out; None without a semicolon.
inner_raw_data(raw_data) ==
    Let(find(raw_data, <<";">>, 1), LAMBDA i :
        IF i = 0 THEN None
        ELSE IF raw_data[Len(raw_data)] = "NL" /\ i < Len(raw_data)
        THEN Some(SubSeq(raw_data, i + 1, Len(raw_data) - 1))
        ELSE Some(SubSeq(raw_data, i + 1, Len(raw_data))))

\* min([text.partition('\n ' + noa)[0] for noa in _NO_ATTR]).
BeforeKeywords(text) ==
    Let(SubSeq(Map(_NO_ATTR, LAMBDA noa : partition(text, <<"NL", " ">> \o noa)[1]),
               1, Len(_NO_ATTR)),
        LAMBDA candidates : min(candidates))

\* The text _extract_raw_data parses for attributes.
attrs_str(inner) == BeforeKeywords(inner)

\* The text _extract_raw_data parses for inverse relations.
inverse_str(inner) == BeforeKeywords(partition(inner, <<"NL", " ", "I", "N", "V", "E", "R", "S",
      "E">>)[3])

RECURSIVE Declarations(_)
\* re.finditer('(.*?) : (.*?);', text, re.DOTALL): the pairs of groups,
\* each without its newline-tab pairs.
Declarations(text) ==
    Let(find(text, <<" ", ":", " ">>, 1), LAMBDA i :
        IF i = 0 \/ find(text, <<";">>, i + 3) = 0 THEN <<>>
        ELSE Let(find(text, <<";">>, i + 3), LAMBDA j :
                 << <<replace(SubSeq(text, 1, i - 1), <<"NL", "TAB">>, <<>>),
                      replace(SubSeq(text, i + 3, j - 1), <<"NL", "TAB">>, <<>>)>> >>
                    \o Declarations(SubSeq(text, j + 1, Len(text)))))

RECURSIVE DeclareAll(_, _, _, _)
\* The loops of _extract_raw_data: the dict d after the declarations decls
\* were stored in it, in order.
DeclareAll(d, decls, entity, inverse) ==
    IF decls = <<>> THEN d
    ELSE Let(IfcSchemaEntityAttribute(decls[1][1], decls[1][2], entity, inverse),
             LAMBDA attr :
                 Let(SubSeq(DictPut(d, attr), 1, Len(DictPut(d, attr))), LAMBDA put :
                     DeclareAll(put, Tail(decls), entity, inverse)))

\* IfcSchemaEntity(name, raw_data, schema): the outcome [exc, val], val
\* being the fields after __init__ with the two texts _extract_raw_data
\* parsed; AttributeError for a raw_data without semicolon.
IfcSchemaEntity(entity_name, raw_data) ==
    Let(inner_raw_data(raw_data), LAMBDA inner :
        IF IsNone(inner) THEN [exc |-> "AttributeError", val |-> None]
        ELSE Let(<<attrs_str(Val(inner)), inverse_str(Val(inner))>>, LAMBDA texts :
                 [exc |-> "",
                  val |-> Some([name |-> entity_name,
                                supertype_name |-> supertype_name(raw_data),
                                attrs_str |-> texts[1],
                                inverse_str |-> texts[2],
                                _attributes_by_name |->
                                   DeclareAll(<<>>, Declarations(texts[1]),
                                              entity_name, FALSE),
                                _inverse_by_name |->
                                   DeclareAll(<<>>, Declarations(texts[2]),
                                              entity_name, TRUE)])]))

----------------------------------------------------------------------------
(* The schema object specification: a user builds a schema object from a   *)
(* raw text and reads its properties.  The file is the raw text, what it   *)
(* is the text of, and the schema the object is built with.                *)

\* The largest number of items of a raw list.
MaxItems == 3

\* The largest number of sections of the body of an entity block.
MaxSections == 3

\* A defined type as the schema holds it.
IfcSchemaDefinedType(defined_type_name, raw_value) == [name |-> defined_type_name,
      _raw_value |-> raw_value]

\* A schema with the given dict of defined types and no other element.
SchemaOf(defined_types) ==
    [defined_types |-> defined_types, select_types |-> <<>>,
     enumerations |-> <<>>, entities |-> <<>>]

\* The schemas of the specification: an empty one, and one that defines
\* two types.
ObjectSchemas ==
    {SchemaOf(<<>>),
     SchemaOf(<<IfcSchemaDefinedType(<<"I", "f", "c", "L", "e", "n", "g", "t", "h", "M", "e",
           "a", "s", "u", "r", "e">>, <<"R", "E", "A", "L">>),
                IfcSchemaDefinedType(<<"I", "f", "c", "L", "a", "b", "e", "l">>, <<"S", "T", "R",
                      "I", "N", "G", "(", "2", "5", "5", ")">>)>>)}

\* The raw values a defined type is built from.
TypeExpressions ==
    {<<"R", "E", "A", "L">>, <<"I", "N", "T", "E", "G", "E", "R">>, <<"B", "O", "O", "L", "E",
          "A", "N">>, <<"S", "T", "R", "I", "N", "G", "(", "2", "5", "5", ")">>, <<"L", "I", "S",
          "T", " ", "[", "3", ":", "4", "]", " ", "O", "F", " ", "I", "N", "T", "E", "G", "E",
          "R">>,
     <<"I", "f", "c", "L", "e", "n", "g", "t", "h", "M", "e", "a", "s", "u", "r", "e">>, <<"I",
           "f", "c", "L", "a", "b", "e", "l">>, <<"b", "a", "d", "_", "r", "a", "w", "_", "v",
           "a", "l">>, <<"B", "I", "N", "A", "R", "Y", "(", "3", "2", ")">>,
     <<"A", "R", "R", "A", "Y", " ", "[", "1", ":", "2", "]", " ", "O", "F", " ", "I", "f", "c",
           "L", "a", "b", "e", "l">>, <<"#", "x", " ", "R", "E", "A", "L">>}

\* The levels of collection of a declaration: none, one with or without
\* bounds, two.
CollectionLevels ==
    {<<>>,
     <<[kind |-> <<"S", "E", "T">>, bounds |-> Some(<<<<"1">>, <<"?">>>>)]>>,
     <<[kind |-> <<"L", "I", "S", "T">>, bounds |-> Some(<<<<"0">>, <<"3">>>>)]>>,
     <<[kind |-> <<"S", "E", "T">>, bounds |-> None]>>,
     <<[kind |-> <<"L", "I", "S", "T">>, bounds |-> Some(<<<<"1">>, <<"?">>>>)],
       [kind |-> <<"L", "I", "S", "T">>, bounds |-> Some(<<<<"2">>, <<"3">>>>)]>>}

\* The declarations a user writes: optional or not, the levels of
\* collection, the referenced type (or none), the forward attribute of an
\* inverse (or none).
DeclarationForms ==
    [optional : BOOLEAN,
     levels : CollectionLevels,
     type : {<<>>, <<"I", "f", "c", "L", "a", "b", "e", "l">>, <<"R", "E", "A", "L">>, <<"B",
           "I", "N", "A", "R", "Y", "(", "3", "2", ")">>},
     for : {None, Some(<<"R", "e", "l">>)}]

\* The text of one level of collection: SET [lo:hi] OF, or SET OF.
LevelText(level) ==
    level.kind \o <<" ">>
       \o (IF IsNone(level.bounds) THEN <<>>
           ELSE <<"[">> \o Val(level.bounds)[1] \o <<":">> \o Val(level.bounds)[2]
                   \o <<"]", " ">>)
       \o <<"O", "F", " ">>

\* The text of the declaration d, as the grammar writes it.
DeclarationText(d) ==
    (IF d.optional THEN <<"O", "P", "T", "I", "O", "N", "A", "L", " ">> ELSE <<>>)
       \o Flatten(Map(d.levels, LevelText))
       \o d.type
       \o (IF IsNone(d.for) THEN <<>> ELSE <<" ", "F", "O", "R", " ">> \o Val(d.for))

\* The items of the raw lists.
ItemNames == {<<"A">>, <<"A", "B">>, <<"B">>}

\* The sequences of length 1 to n over the set S.
SeqsUpTo(S, n) == UNION {[1..k -> S] : k \in 1..n}

RECURSIVE Join(_, _)
\* sep.join(items).
Join(items, sep) ==
    IF Len(items) = 0 THEN <<>>
    ELSE IF Len(items) = 1 THEN items[1]
    ELSE items[1] \o sep \o Join(Tail(items), sep)

\* The raw lists of a select type or an enumeration: items separated by a
\* comma, on one line or on a line each.
RawLists ==
    {Join(items, sep) : items \in SeqsUpTo(ItemNames, MaxItems),
                        sep \in {<<",">>, <<"NL", "TAB", ",">>}}

\* The sections of the body of an entity block.
Sections ==
    {<<"NL", "TAB", "a", " ", ":", " ", "I", "f", "c", "L", "a", "b", "e", "l", ";", "NL", "TAB",
          "b", " ", ":", " ", "O", "P", "T", "I", "O", "N", "A", "L", " ", "I", "f", "c", "B",
          ";">>,
     <<"NL", " ", "W", "H", "E", "R", "E", "NL", "TAB", "W", "R", "1", " ", ":", " ", "x", " ",
           ">", " ", "0", ";">>,
     <<"NL", " ", "I", "N", "V", "E", "R", "S", "E", "NL", "TAB", "r", " ", ":", " ", "S", "E",
           "T", " ", "[", "0", ":", "?", "]", " ", "O", "F", " ", "I", "f", "c", "R", "e", "l",
           "X", " ", "F", "O", "R", " ", "y", ";">>,
     <<"NL", " ", "U", "N", "I", "Q", "U", "E", "NL", "TAB", "U", "R", "1", " ", ":", " ", "a",
           ";">>,
     <<"NL", " ", "D", "E", "R", "I", "V", "E", "NL", "TAB", "d", " ", ":", " ", "I", "f", "c",
           "L", "a", "b", "e", "l", " ", ":", "=", " ", "a", ";">>,
     <<"NL", " ", "W", "R", "2", " ", ":", " ", "y", " ", ">", " ", "0", ";">>}

\* The headers of an entity block, with and without supertype.
Headers == {<<"I", "f", "c", "B", ";">>, <<"I", "f", "c", "B", "NL", " ", "S", "U", "B", "T",
      "Y", "P", "E", " ", "O", "F", " ", "(", "I", "f", "c", "A", ")", ";">>}

\* The raw texts of the entity blocks: a header, then at most MaxSections
\* different sections in any order, then a newline.
EntityBlocks ==
    {h \o Flatten(body) \o <<"NL">> :
        h \in Headers,
        body \in {b \in SeqsUpTo(Sections, MaxSections) \cup {<<>>} :
                     \A i, j \in 1..Len(b) : b[i] = b[j] => i = j}}

\* The raw texts of the specification, each with its kind and a schema.
ObjectFiles ==
    {[kind |-> "TYPE", text |-> t, schema |-> s] : t \in TypeExpressions, s \in ObjectSchemas}
    \cup {[kind |-> "LIST", text |-> t, schema |-> SchemaOf(<<>>)] : t \in RawLists}
    \cup {[kind |-> "DECLARATION", text |-> DeclarationText(d), form |-> d,
           schema |-> SchemaOf(<<>>)] : d \in DeclarationForms}
    \cup {[kind |-> "ENTITY", text |-> t, schema |-> SchemaOf(<<>>)] : t \in EntityBlocks}

InitObjects ==
    /\ file \in ObjectFiles
    /\ Fresh

\* An object is built from the text of the file and its properties are
\* read: the call is recorded with the object's fields as value.
Build(op, o) == Call(op, 0, "", <<file.text>>, Out(Now, o.exc, o.val))

\* IfcSchemaDefinedType(name, raw_value, schema), then type_name, is_ref
\* and ref_type.
NewDefinedType ==
    /\ file.kind = "TYPE"
    /\ Build("IfcSchemaDefinedType",
             [exc |-> "",
              val |-> [type_name |-> DefinedType_type_name(file.text),
                       is_ref |-> DefinedType_is_ref(file.text),
                       ref_type |-> DefinedType_ref_type(file.schema, file.text)]])

\* IfcSchemaSelectType(name, raw_types, schema).entity_names.
NewSelectType ==
    /\ file.kind = "LIST"
    /\ Build("IfcSchemaSelectType", [exc |-> "", val |-> SortedItems(file.text)])

\* IfcSchemaEnum(name, raw_values, schema).values.
NewEnum ==
    /\ file.kind = "LIST"
    /\ Build("IfcSchemaEnum", [exc |-> "", val |-> SortedItems(file.text)])

\* IfcSchemaEntityAttribute(attr_name, attr_raw_type, entity).
NewEntityAttribute ==
    /\ file.kind = "DECLARATION"
    /\ Build("IfcSchemaEntityAttribute",
             [exc |-> "",
              val |-> IfcSchemaEntityAttribute(<<"a">>, file.text, <<"I", "f", "c", "B">>, FALSE)])

\* IfcSchemaEntityInverse(inverse_name, inv_raw_type, entity).
NewEntityInverse ==
    /\ file.kind = "DECLARATION"
    /\ Build("IfcSchemaEntityInverse",
             [exc |-> "",
              val |-> IfcSchemaEntityAttribute(<<"a">>, file.text, <<"I", "f", "c", "B">>, TRUE)])

\* IfcSchemaEntity(name, raw_data, schema).
NewSchemaEntity ==
    /\ file.kind = "ENTITY"
    /\ Build("IfcSchemaEntity", IfcSchemaEntity(<<"I", "f", "c", "B">>, file.text))

NextObjects ==
    \/ NewDefinedType
    \/ NewSelectType
    \/ NewEnum
    \/ NewEntityAttribute
    \/ NewEntityInverse
    \/ NewSchemaEntity

SpecObjects == InitObjects /\ [][NextObjects]_vars

----------------------------------------------------------------------------
(* Properties of the schema object specification.                          *)

\* Whether the name prim is in s at the index i as a whole piece: between
\* the start of s or a separator and a separator or the end of s.
PieceAt(s, i, prim) ==
    /\ HasAt(s, i, prim)
    /\ i = 1 \/ s[i - 1] \in {" ", "("}
    /\ \/ i + Len(prim) = Len(s) + 1
       \/ s[i + Len(prim)] \in {" ", "("}
       \/ /\ s[i + Len(prim)] = ")"
          /\ i + Len(prim) < Len(s)
          /\ s[i + Len(prim) + 1] = " "

\* Whether a simple type name is a piece of the expression s.
NamesSimpleType(s) ==
    \E prim \in _SIMPLE_TYPES : \E i \in 1..Len(s) : PieceAt(s, i, prim)

\* Whether ref_type is what the claim says for the expression of the file:
\* None for a type that is no reference, else the defined type of the
\* schema named by the expression, or KeyError without such a type.
RefTypeResolved ==
    /\ ~result.val.is_ref => result.val.ref_type = [exc |-> "", val |-> None]
    /\ result.val.is_ref =>
          IF \E i \in 1..Len(file.schema.defined_types) :
                file.schema.defined_types[i].name = file.text
          THEN /\ result.val.ref_type.exc = ""
               /\ Val(result.val.ref_type.val).name = file.text
          ELSE result.val.ref_type.exc = "KeyError"

\* C24, as stated: for every defined type, is_ref is true iff its raw type
\* expression is not one of the simple type names; ref_type is None when
\* is_ref is false, else the defined type the expression names, or KeyError.
RefIffNotSimpleTypeName ==
    result.op = "IfcSchemaDefinedType" =>
        /\ result.val.is_ref <=> file.text \notin _SIMPLE_TYPES
        /\ RefTypeResolved

\* C24, amended: for every defined type, is_ref is false iff a simple type
\* name is a piece of the raw type expression, the pieces being what spaces
\* and parentheses separate, and the expression does not start with '#';
\* ref_type is None when is_ref is false, else the defined type the
\* expression names, or KeyError.
RefIffNoSimpleTypePiece ==
    result.op = "IfcSchemaDefinedType" =>
        /\ ~result.val.is_ref <=>
              (NamesSimpleType(file.text) /\ ~startswith(file.text, <<"#">>))
        /\ RefTypeResolved

\* A sized string was built: it is no reference.
SizedStringBuilt ==
    /\ result.op = "IfcSchemaDefinedType"
    /\ file.text = <<"S", "T", "R", "I", "N", "G", "(", "2", "5", "5", ")">>
    /\ ~result.val.is_ref
    /\ IsNone(result.val.ref_type.val)

\* C25: for every declaration given to IfcSchemaEntityAttribute or
\* IfcSchemaEntityInverse, is_optional is true iff the text starts with
\* OPTIONAL; is_set_of is true iff the declaration is a SET or LIST
\* collection, set_of_min and set_of_max being the bounds as written;
\* ifc_type_name is the innermost referenced type; for_attr is the name
\* after FOR (inverse only); and a declaration without type has an empty
\* ifc_type_name and no cardinality.
DeclarationReadAsWritten ==
    result.op \in {"IfcSchemaEntityAttribute", "IfcSchemaEntityInverse"} =>
        /\ result.exc = ""
        /\ result.val.is_optional <=> startswith(file.text, <<"O", "P", "T", "I", "O", "N", "A",
              "L">>)
        /\ result.val.is_set_of <=> file.form.levels # <<>>
        /\ (Len(file.form.levels) = 1 /\ ~IsNone(file.form.levels[1].bounds)) =>
              /\ result.val.set_of_min = Some(Val(file.form.levels[1].bounds)[1])
              /\ result.val.set_of_max = Some(Val(file.form.levels[1].bounds)[2])
        /\ file.form.type # <<>> => result.val.ifc_type_name = file.form.type
        /\ result.op = "IfcSchemaEntityInverse" => result.val.for_attr = file.form.for
        /\ file.form.type = <<>> =>
              /\ result.val.ifc_type_name = <<>>
              /\ IsNone(result.val.set_of_min)
              /\ IsNone(result.val.set_of_max)

\* C26: for every raw list, IfcSchemaEnum.values and
\* IfcSchemaSelectType.entity_names are strictly ascending: sorted, each
\* item once.
ListsStrictlyAscending ==
    result.op \in {"IfcSchemaSelectType", "IfcSchemaEnum"} =>
        \A i, j \in 1..Len(result.val) : i < j => StrLess(result.val[i], result.val[j])

\* The offsets of text at which a section keyword occurs, after a newline
\* and a space.
KeywordOffsets(text) ==
    {i \in 1..Len(text) :
        \E k \in 1..Len(_NO_ATTR) : HasAt(text, i, <<"NL", " ">> \o _NO_ATTR[k])}

\* The prefix of text that ends at the smallest offset of a section
\* keyword, text without keyword.
UpToEarliestKeyword(text) ==
    IF KeywordOffsets(text) = {} THEN text
    ELSE SubSeq(text, 1, (CHOOSE i \in KeywordOffsets(text) :
                             \A j \in KeywordOffsets(text) : i <= j) - 1)

\* What follows the first INVERSE keyword of text, nothing without it.
AfterInverse(text) ==
    IF find(text, <<"NL", " ", "I", "N", "V", "E", "R", "S", "E">>, 1) = 0 THEN <<>>
    ELSE SubSeq(text, find(text, <<"NL", " ", "I", "N", "V", "E", "R", "S", "E">>, 1) + 9,
          Len(text))

\* The body of the entity block of the file.
Body == Val(inner_raw_data(file.text))

\* C27: for every entity block, the text parsed for attributes is the
\* prefix of the body that ends at the smallest offset of a section
\* keyword, whichever keyword that is, and the text parsed for inverse
\* relations is what follows INVERSE up to the smallest such offset; the
\* minimum taken over the candidate prefixes is the shortest of them.
TextsEndAtEarliestKeyword ==
    (result.op = "IfcSchemaEntity" /\ result.exc = "") =>
        /\ Val(result.val).attrs_str = UpToEarliestKeyword(Body)
        /\ Val(result.val).inverse_str = UpToEarliestKeyword(AfterInverse(Body))
        /\ \A k \in 1..Len(_NO_ATTR) :
              /\ Len(Val(result.val).attrs_str)
                    <= Len(partition(Body, <<"NL", " ">> \o _NO_ATTR[k])[1])
              /\ Len(Val(result.val).inverse_str)
                    <= Len(partition(AfterInverse(Body), <<"NL", " ">> \o _NO_ATTR[k])[1])

\* An entity was built from a block whose first section keyword is DERIVE,
\* the last of _NO_ATTR, with INVERSE after it: both texts are not empty.
KeywordsOutOfOrderParsed ==
    /\ result.op = "IfcSchemaEntity"
    /\ result.exc = ""
    /\ find(Body, <<"NL", " ", "I", "N", "V", "E", "R", "S", "E">>, 1) > find(Body, <<"NL", " ",
          "D", "E", "R", "I", "V", "E">>, 1)
    /\ HasAt(Body, Len(UpToEarliestKeyword(Body)) + 1, <<"NL", " ", "D", "E", "R", "I", "V", "E">>)
    /\ Val(result.val).attrs_str # <<>>
    /\ Val(result.val).inverse_str # <<>>
    /\ Len(Val(result.val)._attributes_by_name) = 2
    /\ Len(Val(result.val)._inverse_by_name) = 1

----------------------------------------------------------------------------
(* The schema registry (schema/ifc_schema_reader.py): IfcSchema reads a    *)
(* grammar text into four dicts; the entities answer queries that walk     *)
(* the supertype chain.  A query's outcome is [schema, exc, val], schema   *)
(* being the registry after the query.                                     *)

\* The index of the first newline of text at or after i, past the end
\* without one.
LineEnd(text, i) ==
    IF find(text, <<"NL">>, i) = 0 THEN Len(text) + 1 ELSE find(text, <<"NL">>, i)

\* The group pair of the match of 'TYPE (.*) = (.*);' on one line, or None:
\* the leftmost TYPE that an equals sign and a semicolon follow, the name up
\* to the last such equals sign, the value up to the last semicolon.
DefinedTypeOfLine(line) ==
    Let({p \in 1..Len(line) :
            /\ HasAt(line, p, <<"T", "Y", "P", "E", " ">>)
            /\ \E e \in (p + 5)..Len(line) :
                  HasAt(line, e, <<" ", "=", " ">>) /\ find(line, <<";">>, e + 3) # 0},
        LAMBDA at :
            IF at = {} THEN None
            ELSE Let(CHOOSE p \in at : \A r \in at : p <= r, LAMBDA p :
                 Let(CHOOSE e \in (p + 5)..Len(line) :
                        /\ HasAt(line, e, <<" ", "=", " ">>) /\ find(line, <<";">>, e + 3) # 0
                        /\ \A e2 \in (e + 1)..Len(line) :
                              ~(HasAt(line, e2, <<" ", "=", " ">>) /\ find(line, <<";">>,
                                    e2 + 3) # 0),
                     LAMBDA e :
                 Let(CHOOSE s \in (e + 3)..Len(line) :
                        line[s] = ";" /\ \A s2 \in (s + 1)..Len(line) : line[s2] # ";",
                     LAMBDA s :
                        Some(<<SubSeq(line, p + 5, e - 1), SubSeq(line, e + 3, s - 1)>>)))))

RECURSIVE PutDefinedTypes(_, _)
\* The loop of _read_defined_types over the matches groups, in order.
PutDefinedTypes(def_types, groups) ==
    IF groups = <<>> THEN def_types
    ELSE Let(DictPut(def_types, IfcSchemaDefinedType(Val(groups[1])[1], Val(groups[1])[2])),
             LAMBDA put : PutDefinedTypes(SubSeq(put, 1, Len(put)), Tail(groups)))

\* IfcSchema._read_defined_types on the grammar text.
IfcSchema_read_defined_types(raw_data) ==
    PutDefinedTypes(<<>>, Filter(Map(split(raw_data, <<"NL">>), DefinedTypeOfLine),
                                 LAMBDA g : ~IsNone(g)))

RECURSIVE ListLines(_, _)
\* The spans of the lines a raw list may take from index a on: the rest of
\* the line, then every following line that starts with a tab and a comma.
ListLines(text, a) ==
    Let(LineEnd(text, a), LAMBDA q :
        << <<a, q - 1>> >>
           \o (IF HasAt(text, q, <<"NL", "TAB", ",">>) THEN ListLines(text, q + 3) ELSE <<>>))

\* The indices of the spans that hold a closing parenthesis and a semicolon.
ClosedAt(text, span) ==
    {i \in span[1]..(span[2] - 1) : text[i] = ")" /\ text[i + 1] = ";"}

RECURSIVE ReadLists(_, _, _)
\* re.finditer('TYPE (.*) = <keyword>\n\t\((.*(?:\n\t,.*)*)\);', text) from
\* index start on: the pairs of groups.  The list ends at the last closing
\* parenthesis and semicolon of the last line that has one.
ReadLists(text, keyword, start) ==
    Let(find(text, <<"T", "Y", "P", "E", " ">>, start), LAMBDA p :
        IF p = 0 THEN <<>>
        ELSE Let(LineEnd(text, p) - Len(<<" ", "=", " ">> \o keyword), LAMBDA e :
             IF ~(e >= p + 5 /\ HasAt(text, e, <<" ", "=", " ">> \o keyword \o <<"NL", "TAB",
                   "(">>))
             THEN ReadLists(text, keyword, p + 1)
             ELSE Let(ListLines(text, LineEnd(text, p) + 3), LAMBDA spans :
                  Let({n \in 1..Len(spans) : ClosedAt(text, spans[n]) # {}}, LAMBDA closed :
                      IF closed = {} THEN ReadLists(text, keyword, p + 1)
                      ELSE Let(CHOOSE i \in ClosedAt(text, spans[CHOOSE n \in closed :
                                                              \A k \in closed : k <= n]) :
                                  \A j \in ClosedAt(text, spans[CHOOSE n \in closed :
                                                              \A k \in closed : k <= n]) : j <= i,
                               LAMBDA i :
                                  << <<SubSeq(text, p + 5, e - 1),
                                       SubSeq(text, LineEnd(text, p) + 3, i - 1)>> >>
                                     \o ReadLists(text, keyword, i + 2))))))

\* A select type as the schema holds it.
IfcSchemaSelectType(select_type_name, raw_types) ==
    [name |-> select_type_name, _raw_types |-> raw_types]

\* An enumeration as the schema holds it.
IfcSchemaEnum(enum_name, raw_values) == [name |-> enum_name, _raw_values |-> raw_values]

RECURSIVE PutAll(_, _)
\* d after every value of vals was stored in it, in order.
PutAll(d, vals) ==
    IF vals = <<>> THEN d
    ELSE Let(DictPut(d, vals[1]), LAMBDA put : PutAll(SubSeq(put, 1, Len(put)), Tail(vals)))

\* IfcSchema._read_select_types on the grammar text.
IfcSchema_read_select_types(raw_data) ==
    PutAll(<<>>, Map(ReadLists(raw_data, <<"S", "E", "L", "E", "C", "T">>, 1),
                     LAMBDA g : IfcSchemaSelectType(g[1], g[2])))

\* IfcSchema._read_enumerations on the grammar text.
IfcSchema_read_enumerations(raw_data) ==
    PutAll(<<>>, Map(ReadLists(raw_data, <<"E", "N", "U", "M", "E", "R", "A", "T", "I", "O", "N",
          " ", "O", "F">>, 1),
                     LAMBDA g : IfcSchemaEnum(g[1], g[2])))

RECURSIVE EntityBlocksOf(_, _)
\* re.finditer('ENTITY (.*?)END_ENTITY;', text, re.DOTALL) from index start
\* on: the groups.
EntityBlocksOf(text, start) ==
    Let(find(text, <<"E", "N", "T", "I", "T", "Y", " ">>, start), LAMBDA i :
        IF i = 0 \/ find(text, <<"E", "N", "D", "_", "E", "N", "T", "I", "T", "Y", ";">>,
              i + 7) = 0 THEN <<>>
        ELSE Let(find(text, <<"E", "N", "D", "_", "E", "N", "T", "I", "T", "Y", ";">>, i + 7),
              LAMBDA j :
                 <<SubSeq(text, i + 7, j - 1)>> \o EntityBlocksOf(text, j + 11)))

\* The group of re.search('(.*?)[;|\s]', raw_entity_str): what precedes the
\* first semicolon, bar or white space; None without one.
EntityBlockName(raw_entity_str) ==
    Let({i \in 1..Len(raw_entity_str) :
            raw_entity_str[i] \in {";", "|"} \cup Whitespace
            /\ \A k \in 1..(i - 1) : raw_entity_str[k] # "NL"},
        LAMBDA at :
            IF at = {} THEN None
            ELSE Some(SubSeq(raw_entity_str, 1, (CHOOSE i \in at : \A j \in at : i <= j) - 1)))

RECURSIVE PutEntities(_, _)
\* The loop of _read_entities over the blocks: [exc, val], val the dict.
PutEntities(ents, blocks) ==
    IF blocks = <<>> THEN [exc |-> "", val |-> ents]
    ELSE Let(EntityBlockName(blocks[1]), LAMBDA block_name :
         IF IsNone(block_name) THEN [exc |-> "AttributeError", val |-> <<>>]
         ELSE Let(IfcSchemaEntity(Val(block_name), blocks[1]), LAMBDA ent :
              IF ent.exc # "" THEN [exc |-> ent.exc, val |-> <<>>]
              ELSE Let(DictPut(ents, Val(ent.val)), LAMBDA put :
                       PutEntities(SubSeq(put, 1, Len(put)), Tail(blocks)))))

\* IfcSchema._read_entities on the grammar text.
IfcSchema_read_entities(raw_data) == PutEntities(<<>>, EntityBlocksOf(raw_data, 1))

\* IfcSchema(schema_name, schema_filepath=...) on a file of the given text:
\* [exc, val], val being the registry.
IfcSchemaOfFile(raw_data) ==
    Let(IfcSchema_read_entities(raw_data), LAMBDA ents :
        IF ents.exc # "" THEN [exc |-> ents.exc, val |-> None]
        ELSE [exc |-> "",
              val |-> Some([defined_types |-> IfcSchema_read_defined_types(raw_data),
                            select_types |-> IfcSchema_read_select_types(raw_data),
                            enumerations |-> IfcSchema_read_enumerations(raw_data),
                            entities |-> ents.val])])

\* A query's outcome.
Res(schema, exc, val) == [schema |-> schema, exc |-> exc, val |-> val]

\* IfcSchema.get_select_type(select_type_name).
get_select_type(schema, select_type_name) == DictItem(schema.select_types, select_type_name)

\* IfcSchema.get_enumeration(enum_name).
get_enumeration(schema, enum_name) == DictItem(schema.enumerations, enum_name)

\* IfcSchema.get_entity(entity_name) of a registry read from a file.
IfcSchema_get_entity(schema, entity_name) == DictItem(schema.entities, entity_name)

\* get_element that remembers a name it did not find as a defined type.
GetElementRemembering(schema, element_name) ==
    IF \E kind \in {"defined_types", "select_types", "enumerations", "entities"} :
          Lookup(schema[kind], element_name) # <<>>
    THEN Res(schema, "", None)
    ELSE Res([schema EXCEPT !.defined_types =
                 Append(@, IfcSchemaDefinedType(element_name, <<>>))], "", None)

\* IfcSchema.get_element(element_name): the first of the four dicts that
\* has the name answers, None without one.
get_element(schema, element_name) ==
    Let(<<get_defined_type(schema, element_name), get_select_type(schema, element_name),
          get_enumeration(schema, element_name), IfcSchema_get_entity(schema, element_name)>>,
        LAMBDA found :
            IF \A k \in 1..4 : found[k].exc = "KeyError" THEN Res(schema, "", None)
            ELSE Res(schema, "", found[CHOOSE k \in 1..4 :
                                          /\ found[k].exc = ""
                                          /\ \A j \in 1..(k - 1) : found[j].exc # ""].val))

\* IfcSchema.entity_names.
IfcSchema_entity_names(schema) == sorted(Map(schema.entities, LAMBDA ent : ent.name))

\* IfcSchema.entities.
IfcSchema_entities(schema) ==
    Map(IfcSchema_entity_names(schema), LAMBDA n : Lookup(schema.entities, n)[1])

\* IfcSchemaEntity.supertype.
supertype(schema, ent) ==
    IF ~IsNone(ent.supertype_name) THEN IfcSchema_get_entity(schema, Val(ent.supertype_name))
    ELSE [exc |-> "", val |-> None]

\* The depth of nested calls no walk reaches unless it goes round a cycle
\* of supertypes, and so never ends: Python ends it with RecursionError.
RecursionLimit(schema) == Len(schema.entities)

RECURSIVE InheritsFrom(_, _, _, _, _)
\* IfcSchemaEntity.inherits at the given depth of nested calls.
InheritsFrom(schema, ent, parent_entity_name, deep_inheritance, depth) ==
    IF ent.supertype_name = Some(parent_entity_name) THEN Res(schema, "", TRUE)
    ELSE IF ~deep_inheritance THEN Res(schema, "", FALSE)
    ELSE Let(supertype(schema, ent), LAMBDA up :
             IF up.exc # "" THEN Res(schema, up.exc, FALSE)
             ELSE IF IsNone(up.val) THEN Res(schema, "", FALSE)
             ELSE IF depth >= RecursionLimit(schema) THEN Res(schema, "RecursionError", FALSE)
             ELSE InheritsFrom(schema, Val(up.val), parent_entity_name, deep_inheritance,
                               depth + 1))

\* IfcSchemaEntity.inherits(parent_entity_name, deep_inheritance=...).
inherits(schema, ent, parent_entity_name, deep_inheritance) ==
    InheritsFrom(schema, ent, parent_entity_name, deep_inheritance, 0)

\* IfcSchema.entity_inherits(entity_name, parent_entity_name,
\* deep_inheritance=...).
entity_inherits(schema, entity_name, parent_entity_name, deep_inheritance) ==
    IF IfcSchema_get_entity(schema, entity_name).exc # ""
    THEN Res(schema, "KeyError", FALSE)
    ELSE inherits(schema, Val(IfcSchema_get_entity(schema, entity_name).val),
                  parent_entity_name, deep_inheritance)

\* IfcSchemaEntity.get_subtypes(deep_inheritance=...): the entities of the
\* registry, in the order of their names, that inherit from ent; the first
\* exception of an inherits ends the loop.
get_subtypes(schema, ent, deep_inheritance) ==
    Let(Map(IfcSchema_entities(schema),
            LAMBDA cur_ent : inherits(schema, cur_ent, ent.name, deep_inheritance)),
        LAMBDA answers :
            IF \E k \in 1..Len(answers) : answers[k].exc # ""
            THEN Res(schema, answers[CHOOSE k \in 1..Len(answers) :
                                        /\ answers[k].exc # ""
                                        /\ \A j \in 1..(k - 1) : answers[j].exc = ""].exc, <<>>)
            ELSE Res(schema, "",
                     Filter(IfcSchema_entities(schema),
                            LAMBDA cur_ent :
                                inherits(schema, cur_ent, ent.name, deep_inheritance).val)))

\* IfcSchemaEntity.get_subtype_names(deep_inheritance=...).
get_subtype_names(schema, ent, deep_inheritance) ==
    Let(get_subtypes(schema, ent, deep_inheritance), LAMBDA subtypes :
        Res(subtypes.schema, subtypes.exc, Map(subtypes.val, LAMBDA cur_ent : cur_ent.name)))

\* IfcSchemaEntity.attributes, or not_optional_attributes: the attributes
\* in the order of their names.
EntityAttributes(ent, include_optional) ==
    Filter(Map(sorted(Map(ent._attributes_by_name, LAMBDA attr : attr.name)),
               LAMBDA n : Lookup(ent._attributes_by_name, n)[1]),
           LAMBDA attr : include_optional \/ ~attr.is_optional)

\* IfcSchemaEntity.inverse.
EntityInverse(ent) ==
    Map(sorted(Map(ent._inverse_by_name, LAMBDA inv : inv.name)),
        LAMBDA n : Lookup(ent._inverse_by_name, n)[1])

RECURSIVE OwnBeforeInherited(_, _, _, _)
\* get_all_attributes that puts the entity's own attributes first.
OwnBeforeInherited(schema, ent, include_optional, depth) ==
    Let(supertype(schema, ent), LAMBDA up :
        IF up.exc # "" THEN Res(schema, up.exc, <<>>)
        ELSE IF IsNone(up.val) THEN Res(schema, "", EntityAttributes(ent, include_optional))
        ELSE IF depth >= RecursionLimit(schema) THEN Res(schema, "RecursionError", <<>>)
        ELSE Let(OwnBeforeInherited(schema, Val(up.val), include_optional, depth + 1),
                 LAMBDA inherited :
                     IF inherited.exc # "" THEN inherited
                     ELSE Res(schema, "",
                              EntityAttributes(ent, include_optional) \o inherited.val)))

RECURSIVE AllAttributesFrom(_, _, _, _)
\* IfcSchemaEntity.get_all_attributes at the given depth of nested calls:
\* copies of the inherited attributes, then of the entity's own.
AllAttributesFrom(schema, ent, include_optional, depth) ==
    Let(supertype(schema, ent), LAMBDA up :
        IF up.exc # "" THEN Res(schema, up.exc, <<>>)
        ELSE IF IsNone(up.val) THEN Res(schema, "", EntityAttributes(ent, include_optional))
        ELSE IF depth >= RecursionLimit(schema) THEN Res(schema, "RecursionError", <<>>)
        ELSE Let(AllAttributesFrom(schema, Val(up.val), include_optional, depth + 1),
                 LAMBDA inherited :
                     IF inherited.exc # "" THEN inherited
                     ELSE Res(schema, "",
                              inherited.val \o EntityAttributes(ent, include_optional))))

\* IfcSchemaEntity.get_all_attributes(include_optional=...).
get_all_attributes(schema, ent, include_optional) ==
    AllAttributesFrom(schema, ent, include_optional, 0)

\* _build_name of get_all_attribute_names and get_all_inverse_names.
_build_name(include_classname, classname, attr_name) ==
    IF include_classname THEN classname \o <<".">> \o attr_name ELSE attr_name

\* IfcSchemaEntity.get_all_attribute_names(include_optional=...,
\* include_classname=...).
get_all_attribute_names(schema, ent, include_optional, include_classname) ==
    Let(get_all_attributes(schema, ent, include_optional), LAMBDA all_attrs :
        Res(all_attrs.schema, all_attrs.exc,
            Map(all_attrs.val,
                LAMBDA attr : _build_name(include_classname, attr.entity, attr.name))))

RECURSIVE AllInverseFrom(_, _, _)
\* IfcSchemaEntity.get_all_inverse at the given depth of nested calls.
AllInverseFrom(schema, ent, depth) ==
    Let(supertype(schema, ent), LAMBDA up :
        IF up.exc # "" THEN Res(schema, up.exc, <<>>)
        ELSE IF IsNone(up.val) THEN Res(schema, "", EntityInverse(ent))
        ELSE IF depth >= RecursionLimit(schema) THEN Res(schema, "RecursionError", <<>>)
        ELSE Let(AllInverseFrom(schema, Val(up.val), depth + 1), LAMBDA inherited :
                 IF inherited.exc # "" THEN inherited
                 ELSE Res(schema, "", inherited.val \o EntityInverse(ent))))

\* IfcSchemaEntity.get_all_inverse().
get_all_inverse(schema, ent) == AllInverseFrom(schema, ent, 0)

\* IfcSchemaEntity.get_all_inverse_names(include_classname=...).
get_all_inverse_names(schema, ent, include_classname) ==
    Let(get_all_inverse(schema, ent), LAMBDA all_inv :
        Res(all_inv.schema, all_inv.exc,
            Map(all_inv.val,
                LAMBDA inv : _build_name(include_classname, inv.entity, inv.name))))

\* IfcSchemaEntityAttribute.ifc_type_info.
ifc_type_info(schema, attr) == get_element(schema, attr.ifc_type_name)

\* IfcSchemaEntityInverse.is_relation.
is_relation(schema, inv) ==
    entity_inherits(schema, inv.ifc_type_name, <<"I", "f", "c", "R", "e", "l", "a", "t", "i",
          "o", "n", "s", "h", "i", "p">>, TRUE)

----------------------------------------------------------------------------
(* The registry specification: a user opens a registry on a grammar file   *)
(* and queries it.  The file is the grammar text; reader is the registry.  *)

\* The largest number of entity blocks of a grammar.
MaxBlocks == 3

\* The type declarations a grammar may start with: a defined type, a select
\* type and an enumeration.
TypeDeclarations ==
    <<"T", "Y", "P", "E", " ", "I", "f", "c", "L", "a", "b", "e", "l", " ", "=", " ", "S", "T",
          "R", "I", "N", "G", "(", "2", "5", "5", ")", ";", "NL", "E", "N", "D", "_", "T", "Y",
          "P", "E", ";", "NL", "NL", "T", "Y", "P", "E", " ", "I", "f", "c", "S", " ", "=", " ",
          "S", "E", "L", "E", "C", "T", "NL", "TAB", "(", "I", "f", "c", "B", "NL", "TAB", ",",
          "I", "f", "c", "A", ")", ";", "NL", "E", "N", "D", "_", "T", "Y", "P", "E", ";", "NL",
          "NL">>
    \o <<"T", "Y", "P", "E", " ", "I", "f", "c", "E", " ", "=", " ", "E", "N", "U", "M", "E",
          "R", "A", "T", "I", "O", "N", " ", "O", "F", "NL", "TAB", "(", "B", "NL", "TAB", ",",
          "A", ")", ";", "NL", "E", "N", "D", "_", "T", "Y", "P", "E", ";", "NL", "NL">>

\* The body of the block of an entity, by the entity's name.
BlockBody(entity_name) ==
    CASE entity_name = <<"I", "f", "c", "A">> ->
            <<"NL", "TAB", "N", "a", "m", "e", " ", ":", " ", "O", "P", "T", "I", "O", "N", "A",
                  "L", " ", "I", "f", "c", "L", "a", "b", "e", "l", ";", "NL", "TAB", "G", "l",
                  "o", "b", "a", "l", "I", "d", " ", ":", " ", "I", "f", "c", "L", "a", "b", "e",
                  "l", ";", "NL">>
      [] entity_name = <<"I", "f", "c", "B">> ->
            <<"NL", "TAB", "N", "a", "m", "e", " ", ":", " ", "I", "f", "c", "L", "a", "b", "e",
                  "l", ";", "NL", " ", "I", "N", "V", "E", "R", "S", "E", "NL", "TAB", "O", "w",
                  "n", "s", " ", ":", " ", "S", "E", "T", " ", "[", "0", ":", "?", "]", " ", "O",
                  "F", " ", "I", "f", "c", "C", " ", "F", "O", "R", " ", "O", "w", "n", "e", "r",
                  ";", "NL">>
      [] OTHER ->
            <<"NL", "TAB", "O", "w", "n", "e", "r", " ", ":", " ", "O", "P", "T", "I", "O", "N",
                  "A", "L", " ", "I", "f", "c", "B", ";", "NL", "TAB", "K", "i", "n", "d", " ",
                  ":", " ", "I", "f", "c", "E", ";", "NL", " ", "W", "H", "E", "R", "E", "NL",
                  "TAB", "W", "R", "1", " ", ":", " ", "K", "i", "n", "d", " ", "<", ">", " ",
                  "0", ";", "NL">>

\* The entity headers of the grammars: the entity's name and the supertype
\* it names, if any.  Among them are a supertype that no block declares,
\* an entity that names itself, and blocks that name each other.
BlockHeaders ==
    << <<<<"I", "f", "c", "A">>, None>>,
       <<<<"I", "f", "c", "A">>, Some(<<"I", "f", "c", "C">>)>>,
       <<<<"I", "f", "c", "B">>, Some(<<"I", "f", "c", "A">>)>>,
       <<<<"I", "f", "c", "B">>, Some(<<"I", "f", "c", "B">>)>>,
       <<<<"I", "f", "c", "B">>, Some(<<"I", "f", "c", "X">>)>>,
       <<<<"I", "f", "c", "C">>, Some(<<"I", "f", "c", "B">>)>>,
       <<<<"I", "f", "c", "C">>, Some(<<"I", "f", "c", "A">>)>> >>

\* The text of the block of a header.
BlockText(header) ==
    <<"E", "N", "T", "I", "T", "Y", " ">> \o header[1]
       \o (IF IsNone(header[2]) THEN <<>>
           ELSE <<"NL", " ", "S", "U", "B", "T", "Y", "P", "E", " ", "O", "F", " ",
                 "(">> \o Val(header[2]) \o <<")">>)
       \o <<";">> \o BlockBody(header[1]) \o <<"E", "N", "D", "_", "E", "N", "T", "I", "T", "Y",
             ";", "NL", "NL">>

RECURSIVE BlocksText(_, _)
\* The blocks of the headers whose index is in chosen, from index k on.
BlocksText(chosen, k) ==
    IF k > Len(BlockHeaders) THEN <<>>
    ELSE (IF k \in chosen THEN BlockText(BlockHeaders[k]) ELSE <<>>)
            \o BlocksText(chosen, k + 1)

\* The grammar files: the type declarations, then at most MaxBlocks blocks.
SchemaFiles ==
    {[kind |-> "SCHEMA", text |-> TypeDeclarations \o BlocksText(chosen, 1)] :
        chosen \in {c \in SUBSET (1..Len(BlockHeaders)) : Cardinality(c) <= MaxBlocks}}

\* The names a query is made with: of entities, of other elements, of
\* nothing.
EntityNameChoices == {<<"I", "f", "c", "A">>, <<"I", "f", "c", "B">>, <<"I", "f", "c", "C">>,
      <<"I", "f", "c", "X">>}
ElementNameChoices == EntityNameChoices \cup {<<"I", "f", "c", "L", "a", "b", "e", "l">>, <<"I",
      "f", "c", "S">>, <<"I", "f", "c", "E">>}

InitSchema ==
    /\ file \in SchemaFiles
    /\ Fresh

\* IfcSchema(schema_name, schema_filepath=file).
OpenSchema ==
    /\ reader = None
    /\ file.kind = "SCHEMA"
    /\ \E o \in {IfcSchemaOfFile(file.text)} :
          /\ reader' = o.val
          /\ result' = [NoResult EXCEPT !.op = "IfcSchema", !.exc = o.exc]
    /\ UNCHANGED <<file, heap, loads, first>>

\* A query of the registry: the call is recorded, and the registry is what
\* the query left.
Query(op, arg, o) ==
    /\ reader' = Some(o.schema)
    /\ result' = [op |-> op, w |-> 0, arg |-> arg, again |-> FALSE,
                  exc |-> o.exc, val |-> o.val]
    /\ UNCHANGED <<file, heap, loads, first>>

\* The entities of the registry.
Registered == Range(Val(reader).entities)

GetElement ==
    /\ reader # None
    /\ \E element_name \in ElementNameChoices :
          Query("get_element", <<element_name>>, get_element(Val(reader), element_name))

EntityInherits ==
    /\ reader # None
    /\ \E entity_name \in EntityNameChoices, parent_entity_name \in EntityNameChoices,
          deep_inheritance \in BOOLEAN :
          Query("entity_inherits", <<entity_name, parent_entity_name, deep_inheritance>>,
                entity_inherits(Val(reader), entity_name, parent_entity_name, deep_inheritance))

Inherits ==
    /\ reader # None
    /\ \E ent \in Registered, parent_entity_name \in EntityNameChoices,
          deep_inheritance \in BOOLEAN :
          Query("inherits", <<ent.name, parent_entity_name, deep_inheritance>>,
                inherits(Val(reader), ent, parent_entity_name, deep_inheritance))

GetSubtypes ==
    /\ reader # None
    /\ \E ent \in Registered, deep_inheritance \in BOOLEAN :
          Query("get_subtypes", <<ent.name, deep_inheritance>>,
                get_subtypes(Val(reader), ent, deep_inheritance))

GetSubtypeNames ==
    /\ reader # None
    /\ \E ent \in Registered, deep_inheritance \in BOOLEAN :
          Query("get_subtype_names", <<ent.name, deep_inheritance>>,
                get_subtype_names(Val(reader), ent, deep_inheritance))

GetAllAttributes ==
    /\ reader # None
    /\ \E ent \in Registered, include_optional \in BOOLEAN :
          Query("get_all_attributes", <<ent.name, include_optional>>,
                get_all_attributes(Val(reader), ent, include_optional))

GetAllAttributeNames ==
    /\ reader # None
    /\ \E ent \in Registered, include_optional \in BOOLEAN, include_classname \in BOOLEAN :
          Query("get_all_attribute_names", <<ent.name, include_optional, include_classname>>,
                get_all_attribute_names(Val(reader), ent, include_optional, include_classname))

GetAllInverse ==
    /\ reader # None
    /\ \E ent \in Registered :
          Query("get_all_inverse", <<ent.name>>, get_all_inverse(Val(reader), ent))

GetAllInverseNames ==
    /\ reader # None
    /\ \E ent \in Registered, include_classname \in BOOLEAN :
          Query("get_all_inverse_names", <<ent.name, include_classname>>,
                get_all_inverse_names(Val(reader), ent, include_classname))

IfcTypeInfo ==
    /\ reader # None
    /\ \E ent \in Registered :
          \E attr \in Range(ent._attributes_by_name) :
             Query("ifc_type_info", <<ent.name, attr.name>>, ifc_type_info(Val(reader), attr))

IsRelation ==
    /\ reader # None
    /\ \E ent \in Registered :
          \E inv \in Range(ent._inverse_by_name) :
             Query("is_relation", <<ent.name, inv.name>>, is_relation(Val(reader), inv))

NextSchema ==
    \/ OpenSchema
    \/ GetElement
    \/ EntityInherits
    \/ Inherits
    \/ GetSubtypes
    \/ GetSubtypeNames
    \/ GetAllAttributes
    \/ GetAllAttributeNames
    \/ GetAllInverse
    \/ GetAllInverseNames
    \/ IfcTypeInfo
    \/ IsRelation

SpecSchema == InitSchema /\ [][NextSchema]_vars

----------------------------------------------------------------------------
(* Properties of the registry specification.                               *)

\* The entity a query of an entity was made on.
Queried == Lookup(Val(reader).entities, result.arg[1])[1]

RECURSIVE ChainUp(_, _, _)
\* The supertype chain of ent, from ent up, as far as the registry
\* declares it, for at most k steps.
ChainUp(schema, ent, k) ==
    IF k = 0 \/ IsNone(ent.supertype_name)
       \/ Lookup(schema.entities, Val(ent.supertype_name)) = <<>>
    THEN <<ent>>
    ELSE <<ent>> \o ChainUp(schema, Lookup(schema.entities, Val(ent.supertype_name))[1], k - 1)

\* The supertype chain of the queried entity: one step more than the
\* registry has entities shows a cycle.
Chain == ChainUp(Val(reader), Queried, Len(Val(reader).entities))

\* Whether the chain of the queried entity is defined up to a root.
DefinedUpToRoot == IsNone(Chain[Len(Chain)].supertype_name)

\* The own attribute names of ent in ascending order, with or without the
\* optional ones.
OwnNames(ent, include_optional) ==
    sorted(Map(Filter(ent._attributes_by_name,
                      LAMBDA attr : include_optional \/ ~attr.is_optional),
               LAMBDA attr : attr.name))

RECURSIVE RootToLeaf(_, _, _)
\* The own names of every level of chain, a chain from the leaf up, from
\* the root down.
RootToLeaf(chain, include_optional, include_classname) ==
    IF chain = <<>> THEN <<>>
    ELSE RootToLeaf(Tail(chain), include_optional, include_classname)
            \o Map(OwnNames(chain[1], include_optional),
                   LAMBDA n : IF include_classname THEN chain[1].name \o <<".">> \o n ELSE n)

RECURSIVE IsSubsequence(_, _)
\* Whether a is b without some of its items.
IsSubsequence(a, b) ==
    IF a = <<>> THEN TRUE
    ELSE IF b = <<>> THEN FALSE
    ELSE IF a[1] = b[1] THEN IsSubsequence(Tail(a), Tail(b))
    ELSE IsSubsequence(a, Tail(b))

\* C21: for every entity whose supertype chain is defined up to a root,
\* get_all_attribute_names is the concatenation, from the root down to the
\* entity, of each level's own attribute names in ascending order; with the
\* optional ones its length is the number of pairs of a declaring entity
\* and an attribute name on the chain; without them it is a subsequence of
\* that; and with the class names all its entries are pairwise distinct.
AllNamesFromRootToLeaf ==
    (reader # None /\ result.op = "get_all_attribute_names" /\ DefinedUpToRoot) =>
        /\ result.exc = ""
        /\ result.val = RootToLeaf(Chain, result.arg[2], result.arg[3])
        /\ result.arg[2] =>
              Len(result.val) =
                 Cardinality(UNION {{<<Chain[k].name, attr.name>> :
                                        attr \in Range(Chain[k]._attributes_by_name)} :
                                    k \in 1..Len(Chain)})
        /\ IsSubsequence(result.val, RootToLeaf(Chain, TRUE, result.arg[3]))
        /\ result.arg[3] =>
              \A i, j \in 1..Len(result.val) : i # j => result.val[i] # result.val[j]

\* The names of an entity with two levels above it were read, a name that
\* two levels declare among them.
ThreeLevelsNamed ==
    /\ reader # None
    /\ result.op = "get_all_attribute_names"
    /\ DefinedUpToRoot
    /\ Len(Chain) = 3
    /\ result.arg[2] /\ ~result.arg[3]
    /\ Len(result.val) = 5
    /\ \E i, j \in 1..Len(result.val) : i # j /\ result.val[i] = result.val[j]

\* The names of the entities on the chain of the queried entity, strictly
\* above it.
NamesAbove == {Chain[k].name : k \in 2..Len(Chain)}

\* C22: for every entity E and every name n, inherits(n,
\* deep_inheritance=False) is true iff n is the name of E's immediate
\* supertype, and inherits(n, deep_inheritance=True) is true iff n is the
\* name of an entity on E's supertype chain strictly above E.
InheritsIffOnChain ==
    (reader # None /\ result.op = "inherits") =>
        /\ result.exc = ""
        /\ result.val <=>
              IF result.arg[3] THEN result.arg[2] \in NamesAbove
              ELSE Queried.supertype_name = Some(result.arg[2])

\* C23: for every registry read from a grammar text and every entity E of
\* it, E is not among E.get_subtypes(deep_inheritance=...), deep or not.
NoEntityIsItsOwnSubtype ==
    (reader # None /\ result.op = "get_subtypes" /\ result.exc = "") =>
        \A k \in 1..Len(result.val) : result.val[k].name # result.arg[1]

\* C28: once the registry is built, no query changes its four dicts, the
\* attributes and inverse of an entity, or a supertype name.
RegistryNeverChanges == [][reader # None => reader' = reader]_vars

\* The type of an attribute was looked up in the registry and found.
AttributeTypeFound ==
    /\ reader # None
    /\ result.op = "ifc_type_info"
    /\ result.exc = ""
    /\ ~IsNone(result.val)
    /\ \E other \in ElementNameChoices :
          \A kind \in {"defined_types", "select_types", "enumerations", "entities"} :
             Lookup(Val(reader)[kind], other) = <<>>

\* C29: for every registry read from a grammar text and every entity of
\* it, inherits(name, deep_inheritance=True), get_all_attributes(),
\* get_all_inverse() and get_subtypes(deep_inheritance=True) end: the walk
\* up the supertype chain reaches an entity without supertype.
ChainWalksEnd ==
    (/\ reader # None
     /\ \/ result.op \in {"get_all_attributes", "get_all_inverse"}
        \/ result.op = "inherits" /\ result.arg[3]
        \/ result.op = "get_subtypes" /\ result.arg[2]) =>
        result.exc # "RecursionError"

====
